---- MODULE Spec2Model ----
(***************************************************************************)
(* The chat broker of src/src/server.rs: the accept loop (Server::run),    *)
(* the username handshake, the registry Server.clients, the two tasks of   *)
(* each connection (receive_messages, send_messages), the fan-out          *)
(* (broadcast_message, broadcast_file, remove_user) and shutdown; and the  *)
(* client of src/src/client.rs: connect_with_retry, the username it        *)
(* writes first, its read half (receive_messages) and the two tasks that   *)
(* share its write half (send_messages, send_heartbeat).                   *)
(*                                                                         *)
(* Strings are sequences of one-character strings, so that trim and the    *)
(* character tests are computed as the code computes them.                 *)
(***************************************************************************)
EXTENDS Integers, Sequences, FiniteSets, TLC

\* Number of connections the listener accepts in one run.
MaxConn == 3

\* Number of frames the broker reads in one run, over all connections.
MaxFrames == 1

\* Number of failures in one run: reads and writes that give an error, read
\* timeouts, panics, accept errors.
MaxFaults == 1

Conn == 1..MaxConn

\* Number of frames the client of the connection whose byte stream is
\* followed writes in one run.
MaxSent == 2

\* crate::BUFFER_SIZE, scaled down so that payloads shorter than, as long as
\* and longer than one buffer all occur.
BUFFER_SIZE == 2

\* Number of heartbeat frames the client writes in a run in which time is
\* followed.
MaxBeats == 3

\* Seconds between two readings of the clock, and the last second of a run.
Tick == 5
MaxTime == 25

\* Number of connections whose tasks contend for the registry lock when the
\* lock is followed acquisition by acquisition.
MaxContenders == 2

\* Largest `retries` and `delay` connect_with_retry is called with.
MaxRetries == 5
MaxDelay == 2

\* const HEARTBEAT_TIMEOUT: Duration = Duration::from_secs(10)
HEARTBEAT_TIMEOUT == 10

\* let mut length_buffer = [0; 8]
HeaderLen == 8

\* Values of a byte.
Byte == 256

\* i32::MAX
MaxI32 == 2147483647

-----------------------------------------------------------------------------
(* Text *)

WhiteSpace == {" ", "\n"}

Alphanumeric == {"a", "b", "o", "z", "e", "d", "h", "i", "1"}

RECURSIVE TrimStart(_)
TrimStart(s) ==
    IF s # <<>> /\ Head(s) \in WhiteSpace THEN TrimStart(Tail(s)) ELSE s

RECURSIVE TrimEnd(_)
TrimEnd(s) ==
    IF s # <<>> /\ s[Len(s)] \in WhiteSpace
    THEN TrimEnd(SubSeq(s, 1, Len(s) - 1))
    ELSE s

\* str::trim
Trim(s) == TrimEnd(TrimStart(s))

\* "Server"
ServerName == <<"S", "e", "r", "v", "e", "r">>

\* " has left the chat."
LeftSuffix ==
    <<" ", "h", "a", "s", " ", "l", "e", "f", "t", " ",
      "t", "h", "e", " ", "c", "h", "a", "t", ".">>

\* "Server is shutting down..."
ShutdownText ==
    <<"S", "e", "r", "v", "e", "r", " ", "i", "s", " ",
      "s", "h", "u", "t", "t", "i", "n", "g", " ",
      "d", "o", "w", "n", ".", ".", ".">>

\* "User not found"
UserNotFound ==
    <<"U", "s", "e", "r", " ", "n", "o", "t", " ", "f", "o", "u", "n", "d">>

\* The bytes a client may send as its first write: "ab1", "bob\n" and "ab!".
RawNames ==
    { <<"a", "b", "1">>,
      <<"b", "o", "b", "\n">>,
      <<"a", "b", "!">> }

-----------------------------------------------------------------------------
(* Messages *)

Text(t) == [tag |-> "Text", text |-> t, name |-> <<>>, data |-> <<>>, code |-> 0]

File(n, d) == [tag |-> "File", text |-> <<>>, name |-> n, data |-> d, code |-> 0]

Signal(k) == [tag |-> "Signal", text |-> <<>>, name |-> <<>>, data |-> <<>>, code |-> k]

\* Message::from(text, sender).  The timestamp field (Utc::now()) is left
\* out of the messages: no step of the broker reads it.
MessageFrom(text, from) == [sender |-> from, content |-> Text(text)]

\* Message::from_file(data, name, sender)
MessageFromFile(data, name, from) == [sender |-> from, content |-> File(name, data)]

\* Message::from_code(code, sender)
MessageFromCode(k, from) == [sender |-> from, content |-> Signal(k)]

\* Bodies of the Text frames clients send: "hi" and "@bob hi" (a whisper
\* whose target is registered in some runs and not in others).
Hi == <<"h", "i">>
WhisperBob == <<"@", "b", "o", "b", " ", "h", "i">>

Bodies == {Hi, WhisperBob}

NoteName == <<"n", "o", "t", "e", ".", "t", "x", "t">>
NoteData == <<104, 105>>

\* The sender field a client writes in its frames.  The broker never checks
\* it against the handshake, so a client may write any name: here "Server".
ClaimedSender == ServerName

\* What a frame's payload holds: an encoded message, nothing (length prefix
\* 0), or bytes that are no encoding of a message.
Encoded(m) == [kind |-> "msg", msg |-> m]
EmptyPayload == [kind |-> "empty", msg |-> MessageFrom(<<>>, <<>>)]
Garbage == [kind |-> "garbage", msg |-> MessageFrom(<<>>, <<>>)]

Payloads ==
    {Encoded(MessageFrom(b, ClaimedSender)) : b \in Bodies}
    \cup {Encoded(MessageFromFile(NoteData, NoteName, ClaimedSender))}
    \cup {Encoded(MessageFromCode(k, ClaimedSender)) : k \in {0, 1}}
    \cup {Garbage}

\* Message::from_bytes: a missing content field is replaced by
\* Content::default(), Text(""), so the empty payload decodes.
FromBytes(p) ==
    CASE p.kind = "garbage" -> [ok |-> FALSE, msg |-> p.msg]
      [] p.kind = "empty" -> [ok |-> TRUE, msg |-> MessageFrom(<<>>, <<>>)]
      [] OTHER -> [ok |-> TRUE, msg |-> p.msg]

-----------------------------------------------------------------------------
(* Frames on the wire *)

Min(a, b) == IF a < b THEN a ELSE b

\* Message::as_bytes.  The protobuf encoding is abbreviated: each message of
\* the model has its own byte string, of 1 to 4 bytes; the payload of a
\* frame whose length prefix is 0 is the empty string.
AsBytes(p) ==
    CASE p = EmptyPayload -> <<>>
      [] p = Encoded(MessageFrom(Hi, ClaimedSender)) -> <<26>>
      [] p = Encoded(MessageFromCode(0, ClaimedSender)) -> <<40, 0>>
      [] p = Encoded(MessageFromFile(NoteData, NoteName, ClaimedSender)) -> <<34>> \o NoteData
      [] p = Encoded(MessageFrom(WhisperBob, ClaimedSender)) -> <<26, 64, 32, 26>>
      [] OTHER -> <<255>>

\* The payloads a client writes on the stream that is followed.
WirePayloads ==
    { EmptyPayload,
      Encoded(MessageFrom(Hi, ClaimedSender)),
      Encoded(MessageFromCode(0, ClaimedSender)),
      Encoded(MessageFromFile(NoteData, NoteName, ClaimedSender)),
      Encoded(MessageFrom(WhisperBob, ClaimedSender)) }

\* What Message::from_bytes is given: the payload these bytes encode, or
\* bytes that encode nothing.
FromWire(bytes) ==
    IF \E p \in WirePayloads : AsBytes(p) = bytes
    THEN CHOOSE p \in WirePayloads : AsBytes(p) = bytes
    ELSE Garbage

RECURSIVE BeDigits(_, _)
BeDigits(n, k) ==
    IF k = 0 THEN <<>> ELSE Append(BeDigits(n \div Byte, k - 1), n % Byte)

\* u64::to_be_bytes
ToBeBytes(n) == BeDigits(n, HeaderLen)

\* u64::from_be_bytes.  A value of 2^31 or more is given as i32::MAX: more
\* bytes than any stream of the model holds.
RECURSIVE FromBeBytes(_)
FromBeBytes(b) ==
    IF b = <<>> THEN 0
    ELSE LET high == FromBeBytes(SubSeq(b, 1, Len(b) - 1)) IN
             IF high > MaxI32 \div Byte THEN MaxI32
             ELSE IF high = MaxI32 \div Byte /\ b[Len(b)] > MaxI32 % Byte THEN MaxI32
             ELSE high * Byte + b[Len(b)]

\* slice::chunks_exact(size): the chunks of b of the full size; what is
\* left at the end is not among them.
RECURSIVE ChunksExact(_, _)
ChunksExact(b, size) ==
    IF Len(b) < size THEN <<>>
    ELSE <<SubSeq(b, 1, size)>> \o ChunksExact(SubSeq(b, size + 1, Len(b)), size)

\* slice::chunks(size): the chunks of b, the last one shorter if need be.
RECURSIVE Chunks(_, _)
Chunks(b, size) ==
    IF b = <<>> THEN <<>>
    ELSE <<SubSeq(b, 1, Min(size, Len(b)))>>
         \o Chunks(SubSeq(b, Min(size, Len(b)) + 1, Len(b)), size)

RECURSIVE Concat(_)
Concat(ss) == IF ss = <<>> THEN <<>> ELSE Head(ss) \o Concat(Tail(ss))

\* The bytes the frame writer writes for a payload: the length prefix, then
\* the payload chunk by chunk.
WriteFrame(payload) ==
    ToBeBytes(Len(payload)) \o Concat(Chunks(payload, BUFFER_SIZE))

\* The bytes written for a sequence of payloads.
RECURSIVE Stream(_)
Stream(fs) == IF fs = <<>> THEN <<>> ELSE WriteFrame(Head(fs)) \o Stream(Tail(fs))

\* The read of the payload loop asks for the whole buffer.
ChunkSizeWholeBuffer(remaining) == BUFFER_SIZE

\* let chunk_size = std::cmp::min(remaining, crate::BUFFER_SIZE)
ChunkSize(remaining) == Min(remaining, BUFFER_SIZE)

-----------------------------------------------------------------------------
(* The wire codec: Message::as_bytes and Message::from_bytes *)

\* 2^16.  Seconds since the epoch are an i64 in the code; they are kept as
\* two halves, hi * 2^16 + lo, so that the cast to i32 is computed on the
\* width the code has.
Half == 65536

\* DateTime<Utc>: seconds since the epoch, in two halves, and nanoseconds.
DateTime(hi, lo, nanos) == [hi |-> hi, lo |-> lo, nanos |-> nanos]

\* MessageType::Private, MessageType::Public
Private == 0
Public == 1

\* Message { sender, content, kind, timestamp }
Message(sender, content, kind, timestamp) ==
    [sender |-> sender, content |-> content, kind |-> kind, timestamp |-> timestamp]

\* Option<Content>::None of ChatMessage.content
NoContent == [tag |-> "None", text |-> <<>>, name |-> <<>>, data |-> <<>>, code |-> 0]

\* impl Default for Content
ContentDefault == Text(<<>>)

\* chat_message.content.unwrap_or_default()
UnwrapOrDefault(content) == IF content = NoContent THEN ContentDefault ELSE content

\* TimeConversion for DateTime<Utc>::to_timestamp: self.timestamp() as i32,
\* the low 32 bits of the seconds read as two's complement.
to_timestamp(dt) ==
    (((dt.hi + Half \div 2) % Half) - Half \div 2) * Half + dt.lo

\* TimeConversion for CompactTimestamp::to_datetime:
\* DateTime::from_timestamp(seconds as i64, 0).unwrap_or_default(); every
\* i32 is in the range of from_timestamp.
to_datetime(seconds) == DateTime(seconds \div Half, seconds % Half, 0)

\* The characters of the strings of the model and their UTF-8 codes (all
\* ASCII).
Chars == <<"a", "b", "1", " ", "\n", "h", "i", "n">>
Codes == <<97, 98, 49, 32, 10, 104, 105, 110>>

Utf8Code(ch) == Codes[CHOOSE i \in 1..Len(Chars) : Chars[i] = ch]

\* str::as_bytes
Utf8(s) == [i \in 1..Len(s) |-> Utf8Code(s[i])]

\* String::from_utf8 succeeds: the bytes of the model's strings are ASCII; a
\* byte of 128 or more starts no character here.
Utf8Valid(b) == \A i \in 1..Len(b) : b[i] < 128

Utf8Char(c) ==
    IF \E i \in 1..Len(Codes) : Codes[i] = c
    THEN Chars[CHOOSE i \in 1..Len(Codes) : Codes[i] = c]
    ELSE "?"

FromUtf8(b) == [i \in 1..Len(b) |-> Utf8Char(b[i])]

Drop(b, n) == SubSeq(b, n + 1, Len(b))

\* prost::encoding::encode_varint of a value of 0 or more.
RECURSIVE encode_varint(_)
encode_varint(n) ==
    IF n < 128 THEN <<n>> ELSE <<(n % 128) + 128>> \o encode_varint(n \div 128)

\* prost int32: the value as i64 as u64.  A negative value is sign-extended
\* to 64 bits and takes ten bytes.
encode_int32(v) ==
    IF v >= 0 THEN encode_varint(v)
    ELSE LET low == (v + MaxI32) + 1 IN
         <<(low % 128) + 128,
           ((low \div 128) % 128) + 128,
           ((low \div 16384) % 128) + 128,
           ((low \div 2097152) % 128) + 128,
           (low \div 268435456) + 120 + 128,
           255, 255, 255, 255, 1>>

\* The number of bytes of the varint b starts with: up to the first byte
\* without the continuation bit.  0 if there is none within ten bytes, or
\* if the tenth byte overflows 64 bits (decode_varint gives an error).
VarintEnd(b) ==
    LET ends == {i \in 1..Min(Len(b), 10) : b[i] < 128} IN
        IF ends = {} THEN 0
        ELSE LET e == CHOOSE i \in ends : \A j \in ends : i <= j IN
                 IF e = 10 /\ b[10] > 1 THEN 0 ELSE e

Group(b, i) == IF i <= VarintEnd(b) THEN b[i] % 128 ELSE 0

\* decode_varint(..) as i32: the low 32 bits, read as two's complement.
decode_int32(b) ==
    LET low == Group(b, 1) + Group(b, 2) * 128 + Group(b, 3) * 16384
               + Group(b, 4) * 2097152 + (Group(b, 5) % 8) * 268435456
    IN  IF (Group(b, 5) \div 8) % 2 = 1 THEN (low - MaxI32) - 1 ELSE low

\* decode_varint(..) of a key or a length.  A value of 2^28 or more is no
\* key and no length of the inputs of the model: it is given as i32::MAX,
\* which is wire type 7 as a key and more than any buffer as a length.
decode_length(b) ==
    IF VarintEnd(b) <= 4
    THEN Group(b, 1) + Group(b, 2) * 128 + Group(b, 3) * 16384 + Group(b, 4) * 2097152
    ELSE MaxI32

NoRest == [ok |-> FALSE, rest |-> <<>>]

\* prost::encoding::skip_field for a field the message does not declare:
\* wire types 0 (varint), 1 (64-bit), 2 (length-delimited), 3 (group: up to
\* its end tag) and 5 (32-bit); an end-group tag on its own is an error.
RECURSIVE skip_field(_, _, _), skip_group(_, _)
skip_field(wire_type, field, b) ==
    CASE wire_type = 0 ->
            IF VarintEnd(b) = 0 THEN NoRest
            ELSE [ok |-> TRUE, rest |-> Drop(b, VarintEnd(b))]
      [] wire_type = 1 ->
            IF Len(b) < 8 THEN NoRest ELSE [ok |-> TRUE, rest |-> Drop(b, 8)]
      [] wire_type = 2 ->
            IF VarintEnd(b) = 0 \/ decode_length(b) > Len(b) - VarintEnd(b)
            THEN NoRest
            ELSE [ok |-> TRUE, rest |-> Drop(b, VarintEnd(b) + decode_length(b))]
      [] wire_type = 3 -> skip_group(field, b)
      [] wire_type = 5 ->
            IF Len(b) < 4 THEN NoRest ELSE [ok |-> TRUE, rest |-> Drop(b, 4)]
      [] OTHER -> NoRest

skip_group(field, b) ==
    IF VarintEnd(b) = 0 THEN NoRest
    ELSE LET key == decode_length(b)
             rest == Drop(b, VarintEnd(b))
         IN  IF key \div 8 = 0 \/ key % 8 > 5 THEN NoRest
             ELSE IF key % 8 = 4
             THEN IF key \div 8 = field THEN [ok |-> TRUE, rest |-> rest] ELSE NoRest
             ELSE LET s == skip_field(key % 8, key \div 8, rest) IN
                      IF s.ok THEN skip_group(field, s.rest) ELSE NoRest

\* A length-delimited value at the head of b: its bytes and what follows.
Delimited(b) ==
    IF VarintEnd(b) = 0 \/ decode_length(b) > Len(b) - VarintEnd(b)
    THEN [ok |-> FALSE, value |-> <<>>, rest |-> <<>>]
    ELSE [ok |-> TRUE,
          value |-> SubSeq(b, VarintEnd(b) + 1, VarintEnd(b) + decode_length(b)),
          rest |-> Drop(b, VarintEnd(b) + decode_length(b))]

\* A field with a string or bytes value: key (wire type 2), length, value.
\* For a plain field prost leaves out the default, the empty value.
DelimitedField(field, value) == <<field * 8 + 2>> \o encode_varint(Len(value)) \o value

PlainDelimited(field, value) ==
    IF value = <<>> THEN <<>> ELSE DelimitedField(field, value)

\* A plain int32 / enumeration field: key (wire type 0), varint; 0 is left
\* out.
PlainInt32(field, v) == IF v = 0 THEN <<>> ELSE <<field * 8>> \o encode_int32(v)

\* FileData::encode: #[prost(bytes, tag = "1")] data, #[prost(string, tag = "2")] name
EncodeFileData(content) ==
    PlainDelimited(1, content.data) \o PlainDelimited(2, Utf8(content.name))

\* The oneof Content: tag 3 for Text, tag 4 for File; a oneof that is Some
\* is written even when its value is empty.
EncodeContent(content) ==
    CASE content.tag = "Text" -> DelimitedField(3, Utf8(content.text))
      [] content.tag = "File" -> DelimitedField(4, EncodeFileData(content))
      [] OTHER -> <<>>

\* Message::as_bytes: ChatMessage { sender: self.sender.trim(), content:
\* Some(self.content), kind: self.kind as i32, timestamp:
\* self.timestamp.to_timestamp() } encoded field by field in tag order.
as_bytes(m) ==
    PlainDelimited(2, Utf8(Trim(m.sender)))
    \o EncodeContent(m.content)
    \o PlainInt32(5, m.kind)
    \o PlainInt32(6, to_timestamp(m.timestamp))

\* ChatMessage::default(), and a decoding that failed.
ChatDefault ==
    [ok |-> TRUE, sender |-> <<>>, content |-> NoContent, kind |-> 0, timestamp |-> 0]

ChatError == [ChatDefault EXCEPT !.ok = FALSE]

\* FileData::decode: merge the fields of b into the file `acc`.
RECURSIVE merge_file(_, _)
merge_file(b, acc) ==
    IF b = <<>> THEN [ok |-> TRUE, file |-> acc]
    ELSE IF VarintEnd(b) = 0 THEN [ok |-> FALSE, file |-> acc]
    ELSE LET key == decode_length(b)
             field == key \div 8
             wire_type == key % 8
             rest == Drop(b, VarintEnd(b))
             d == Delimited(rest)
             s == skip_field(wire_type, field, rest)
         IN  IF field = 0 \/ wire_type > 5 THEN [ok |-> FALSE, file |-> acc]
             ELSE IF field = 1
             THEN IF wire_type = 2 /\ d.ok
                  THEN merge_file(d.rest, File(acc.name, d.value))
                  ELSE [ok |-> FALSE, file |-> acc]
             ELSE IF field = 2
             THEN IF wire_type = 2 /\ d.ok /\ Utf8Valid(d.value)
                  THEN merge_file(d.rest, File(FromUtf8(d.value), acc.data))
                  ELSE [ok |-> FALSE, file |-> acc]
             ELSE IF s.ok THEN merge_file(s.rest, acc)
                  ELSE [ok |-> FALSE, file |-> acc]

\* ChatMessage::decode: merge the fields of b into `acc`.  Fields 2, 3, 4,
\* 5 and 6 are declared; any other field is skipped; a field that occurs
\* again replaces the value read before.
RECURSIVE merge_chat(_, _)
merge_chat(b, acc) ==
    IF b = <<>> THEN acc
    ELSE IF VarintEnd(b) = 0 THEN ChatError
    ELSE LET key == decode_length(b)
             field == key \div 8
             wire_type == key % 8
             rest == Drop(b, VarintEnd(b))
             d == Delimited(rest)
             f == merge_file(d.value,
                             IF acc.content.tag = "File" THEN acc.content
                             ELSE File(<<>>, <<>>))
             s == skip_field(wire_type, field, rest)
         IN  IF field = 0 \/ wire_type > 5 THEN ChatError
             ELSE IF field = 2
             THEN IF wire_type = 2 /\ d.ok /\ Utf8Valid(d.value)
                  THEN merge_chat(d.rest, [acc EXCEPT !.sender = FromUtf8(d.value)])
                  ELSE ChatError
             ELSE IF field = 3
             THEN IF wire_type = 2 /\ d.ok /\ Utf8Valid(d.value)
                  THEN merge_chat(d.rest, [acc EXCEPT !.content = Text(FromUtf8(d.value))])
                  ELSE ChatError
             ELSE IF field = 4
             THEN IF wire_type = 2 /\ d.ok /\ f.ok
                  THEN merge_chat(d.rest, [acc EXCEPT !.content = f.file])
                  ELSE ChatError
             ELSE IF field \in {5, 6}
             THEN IF wire_type = 0 /\ VarintEnd(rest) # 0
                  THEN merge_chat(Drop(rest, VarintEnd(rest)),
                                  IF field = 5
                                  THEN [acc EXCEPT !.kind = decode_int32(rest)]
                                  ELSE [acc EXCEPT !.timestamp = decode_int32(rest)])
                  ELSE ChatError
             ELSE IF s.ok THEN merge_chat(s.rest, acc) ELSE ChatError

\* Result<Message, Error> of from_bytes.
DecodeOk(m) == [ok |-> TRUE, msg |-> m]

MessageConversionFailed ==
    [ok |-> FALSE, msg |-> Message(<<>>, ContentDefault, 0, DateTime(0, 0, 0))]

\* Message::from_bytes: ChatMessage::decode, then the content or its
\* default, the kind 0 or 1 (anything else is an error), the timestamp as a
\* DateTime.
from_bytes(bytes) ==
    LET chat == merge_chat(bytes, ChatDefault) IN
        IF ~chat.ok \/ chat.kind \notin {Private, Public}
        THEN MessageConversionFailed
        ELSE DecodeOk(Message(chat.sender, UnwrapOrDefault(chat.content), chat.kind,
                              to_datetime(chat.timestamp)))

-----------------------------------------------------------------------------
(* State *)

VARIABLES
    clients,    \* Server.clients: the set of Client{username, sender}
    queue,      \* queue[c]: the messages in the channel of connection c
    uname,      \* uname[c]: the username handle_client(c) was spawned with
    hstate,     \* hstate[c]: where the handler of connection c is
    rtask,      \* rtask[c]: the receive_messages task of connection c
    stask,      \* stask[c]: the send_messages task of connection c
    srv,        \* where Server::run is
    lock,       \* who holds the registry mutex
    nframes,    \* frames read so far
    nfaults,    \* failures so far
    ev,         \* the frame read by the last step, if it read one: [conn, payload]
    \* The byte stream of one connection (RC), followed read by read:
    frames,         \* the payloads its client writes, in order
    arrived,        \* bytes of the stream that have reached the broker
    consumed,       \* bytes of the stream receive_messages has read
    closed,         \* the client has closed the stream
    rpc,            \* where receive_messages is: "prefix", "payload", "decode"
    length_buffer,  \* the bytes of the length prefix read so far
    message_length, \* u64::from_be_bytes(length_buffer)
    message_buffer, \* the bytes of the payload read so far (bytes_read of them)
    now,            \* the clock, in seconds
    last_activity,  \* receive_messages' last_activity
    deadline,       \* when timeout(HEARTBEAT_TIMEOUT, ..) of the current turn ends
    lastbyte,       \* when the last byte arrived
    lastframe,      \* when the last whole frame had arrived
    regular,        \* every whole frame arrived less than HEARTBEAT_TIMEOUT after the one before
    log,            \* the payloads receive_messages has handed to from_bytes, in order
    rerr,           \* the error receive_messages returned
    \* One message taken through the codec:
    original,       \* the Message given to as_bytes
    wire,           \* the bytes given to from_bytes
    origin,         \* how `wire` was made: "encoded", "truncated", "forged"
    cstep,          \* "message", "bytes", "decoded"
    decoded,        \* what from_bytes returned
    \* One call of Client::connect_with_retry:
    retries,        \* its argument `retries`
    delay,          \* its argument `delay`, in seconds
    attempt,        \* the loop variable of `for attempt in 0..retries`
    cpc,            \* where the call is: "for", "connect", "sleep", "return"
    tried,          \* what TcpStream::connect returned, call by call
    waited,         \* the seconds the call has slept
    result,         \* what the call returned
    \* The write half of the client's stream, shared by two tasks:
    wguard,         \* who holds the Mutex of the write half
    upstream,       \* the bytes written to the stream so far
    mpc,            \* where Client::send_messages is
    bpc,            \* where Client::send_heartbeat is
    message_bytes,  \* send_messages' message_bytes
    pending,        \* the chunks of message_bytes not written yet
    nsent,          \* frames send_messages has begun
    nbeats,         \* frames send_heartbeat has begun
    \* The client's read half and run_client:
    ctask,          \* the task of Client::receive_messages
    crun,           \* where Client::run_client is
    \* The first bytes of the stream of RC:
    hello,          \* what its client wrote before the first frame
    \* The registry lock, acquisition by acquisition:
    lpc,            \* lpc[t]: where task t is with respect to the lock
    holder          \* the task whose MutexGuard of the registry is alive

cvars == <<original, wire, origin, cstep, decoded>>

tvars == <<retries, delay, attempt, cpc, tried, waited, result>>

wvars == <<wguard, upstream, mpc, bpc, message_bytes, pending, nsent, nbeats>>

dvars == <<ctask, crun>>

lvars == <<lpc, holder>>

\* The client's side, and the finer views of the broker.
kvars == <<tvars, wvars, dvars, hello, lvars>>

\* The broker's tasks.
bvars == <<clients, queue, uname, hstate, rtask, stask, srv, lock, nframes,
           nfaults, ev>>

rvars == <<frames, arrived, consumed, closed, rpc, length_buffer, message_length,
           message_buffer, now, last_activity, deadline, lastbyte, lastframe,
           regular, log, rerr>>

vars == <<clients, queue, uname, hstate, rtask, stask, srv, lock, nframes, nfaults, ev,
          rvars, cvars, kvars>>

\* Client { username, sender }: the sender half of the channel of connection c
\* is named by c.
Client(username, c) == [username |-> username, sender |-> c]

NoPayload == [kind |-> "none", msg |-> MessageFrom(<<>>, <<>>)]

Event(c, p) == [conn |-> c, payload |-> p]

\* The last step read no frame.
NoEvent == Event(0, NoPayload)

\* No byte stream is followed: frames are read whole (receive_frame).
ReaderIdle ==
    /\ frames = <<>>
    /\ arrived = 0
    /\ consumed = 0
    /\ closed = FALSE
    /\ rpc = "prefix"
    /\ length_buffer = <<>>
    /\ message_length = 0
    /\ message_buffer = <<>>
    /\ now = 0
    /\ last_activity = 0
    /\ deadline = HEARTBEAT_TIMEOUT
    /\ lastbyte = 0
    /\ lastframe = 0
    /\ regular = TRUE
    /\ log = <<>>
    /\ rerr = "none"

\* No message is taken through the codec.
CodecIdle ==
    /\ original = Message(<<>>, ContentDefault, Private, DateTime(0, 0, 0))
    /\ wire = <<>>
    /\ origin = "none"
    /\ cstep = "message"
    /\ decoded = MessageConversionFailed

\* Nothing has returned yet; Ok(stream); Err(Error::ConnectionFailed(n)).
NoResult == <<"none", 0>>

Connected == <<"Ok", 0>>

ConnectionFailed(n) == <<"ConnectionFailed", n>>

\* No call of connect_with_retry is followed.
RetryIdle ==
    /\ retries = 0
    /\ delay = 0
    /\ attempt = 0
    /\ cpc = "for"
    /\ tried = <<>>
    /\ waited = 0
    /\ result = NoResult

\* The client's two writing tasks are not followed.
WriterIdle ==
    /\ wguard = "free"
    /\ upstream = <<>>
    /\ mpc = "input"
    /\ bpc = "sleep"
    /\ message_bytes = <<>>
    /\ pending = <<>>
    /\ nsent = 0
    /\ nbeats = 0

\* The client's read half is not followed.
DownstreamIdle == ctask = "none" /\ crun = "connect"

\* The stream of RC starts with its first frame.
NoHello == hello = <<>>

\* No task, and no guard.
NoTask == <<"none", 0>>

\* The lock is followed through `lock` only.
LockIdle == lpc = <<>> /\ holder = NoTask

\* The client's side is not followed.
ClientIdle == RetryIdle /\ WriterIdle /\ DownstreamIdle /\ NoHello /\ LockIdle

\* No connection yet, no task of the broker.
BrokerIdle ==
    /\ clients = {}
    /\ queue = [c \in Conn |-> <<>>]
    /\ uname = [c \in Conn |-> <<>>]
    /\ hstate = [c \in Conn |-> "idle"]
    /\ rtask = [c \in Conn |-> "none"]
    /\ stask = [c \in Conn |-> "none"]
    /\ srv = "select"
    /\ lock = "free"
    /\ nframes = 0
    /\ nfaults = 0
    /\ ev = NoEvent

Init ==
    /\ clients = {}
    /\ queue = [c \in Conn |-> <<>>]
    /\ uname = [c \in Conn |-> <<>>]
    /\ hstate = [c \in Conn |-> "idle"]
    /\ rtask = [c \in Conn |-> "none"]
    /\ stask = [c \in Conn |-> "none"]
    /\ srv = "select"
    /\ lock = "free"
    /\ nframes = 0
    /\ nfaults = 0
    /\ ev = NoEvent
    /\ ReaderIdle
    /\ CodecIdle
    /\ ClientIdle

\* The process lives until Server::run returns.
Running == srv \notin {"Ok", "Err"}

LockFree == lock = "free"

\* One more failure happens.
Fault == nfaults < MaxFaults /\ nfaults' = nfaults + 1

-----------------------------------------------------------------------------
(* The registry and the channels *)

\* impl PartialEq for Client: the usernames are compared, the senders are not.
ClientEq(a, b) == a.username = b.username

\* Hash of crate::Sender.  The registry is keyed by username and remove_user
\* looks an entry up with Sender::new() as probe, so every Sender hashes
\* alike.
SenderHash(sender) == 0

\* #[derive(Hash)] on Client: the hash of the username, then of the sender.
ClientHash(client) == <<client.username, SenderHash(client.sender)>>

\* Contains with the equality #[derive(PartialEq)] would give Client: every
\* field compared.
ContainsDerivedEq(client_list, client) == client \in client_list

\* HashSet<Client>::contains: an entry with the hash of `client` that is
\* equal to it.
Contains(client_list, client) ==
    \E cl \in client_list : ClientHash(cl) = ClientHash(client) /\ ClientEq(cl, client)

\* Handshake with the insert made before the check, HashSet::replace style.
HandshakeReplace(client_list, client) ==
    IF Contains(client_list, client)
    THEN [result |-> "UsernameTaken",
          list |-> {cl \in client_list : ~ClientEq(cl, client)} \cup {client}]
    ELSE [result |-> "inserted", list |-> client_list \cup {client}]

\* handle_client, under the registry lock: refuse a username that is in
\* the registry, insert the client otherwise.
Handshake(client_list, client) ==
    IF Contains(client_list, client)
    THEN [result |-> "UsernameTaken", list |-> client_list]
    ELSE [result |-> "inserted", list |-> client_list \cup {client}]

\* Remove with the derived equality: the probe Client { username,
\* Sender::new() } equals no entry that holds a channel.
RemoveDerivedEq(client_list, username) ==
    client_list \ {Client(username, 0)}

\* HashSet<Client>::remove(&Client { username, sender: Sender::new() }):
\* Sender::new() holds no channel, named 0 here.
Remove(client_list, username) ==
    {cl \in client_list :
        ~(/\ ClientHash(cl) = ClientHash(Client(username, 0))
          /\ ClientEq(cl, Client(username, 0)))}

\* The receiver half of the channel of connection c exists: handle_client
\* holds it until it spawns send_messages, which holds it until it returns.
RxAlive(c) ==
    /\ hstate[c] \notin {"idle", "reading", "closed", "UsernameTaken"}
    /\ stask[c] \in {"none", "run"}

\* Some sender half of the channel of connection c exists: the registry's
\* clone and the `client` local of handle_client.
TxAlive(c) ==
    \/ \E cl \in clients : cl.sender = c
    \/ hstate[c] \in {"spawned", "inserted", "select"}

\* A channel that hands out the last message sent first.
EnqueueFront(q, targets, m) ==
    [c \in Conn |-> IF c \in targets THEN <<m>> \o q[c] ELSE q[c]]

\* Channels that do not agree on the order: the message goes to the end of
\* the channel of the first target and to the front of the others.
EnqueueSkewed(q, targets, m) ==
    [c \in Conn |->
        IF c \notin targets THEN q[c]
        ELSE IF \A t \in targets : c <= t THEN Append(q[c], m)
        ELSE <<m>> \o q[c]]

\* UnboundedSender::send on each channel of `targets`.
Enqueue(q, targets, m) ==
    [c \in Conn |-> IF c \in targets THEN Append(q[c], m) ELSE q[c]]

\* broadcast_message without the test client.username != sender_username.
broadcast_message_all(client_list, sender_username) == client_list

\* The clients broadcast_message sends to.
broadcast_message_targets(client_list, sender_username) ==
    {cl \in client_list : cl.username # sender_username}

\* broadcast_file without the test client.username != sender_username.
broadcast_file_all(client_list, sender_username) == client_list

\* The clients broadcast_file sends to.
broadcast_file_targets(client_list, sender_username) ==
    {cl \in client_list : cl.username # sender_username}

\* The match with the Signal arm routed like Text.
RouteKindSignalAsText(content) ==
    IF content.tag = "File" THEN "broadcast_file" ELSE "broadcast_message"

\* The match on the decoded content in receive_messages.
RouteKind(content) ==
    CASE content.tag = "Text" -> "broadcast_message"
      [] content.tag = "File" -> "broadcast_file"
      [] OTHER -> "none"

\* The decoded message forwarded as the client sent it.
RoutedAsReceived(username, message) == message

\* The message broadcast_message / broadcast_file build for a decoded frame
\* of the connection that registered `username`.
Routed(username, message) ==
    IF message.content.tag = "File"
    THEN MessageFromFile(message.content.data, message.content.name, username)
    ELSE MessageFrom(message.content.text, username)

RouteTargets(client_list, username, message) ==
    IF message.content.tag = "File"
    THEN broadcast_file_targets(client_list, username)
    ELSE broadcast_message_targets(client_list, username)

Senders(client_set) == {cl.sender : cl \in client_set}

\* `for client in clients.iter() { client.sender.send(message)?; }`: the
\* loop ends at the first send that fails, and the set is iterated in an
\* order the program does not choose.  Gives the possible outcomes.
SendEach(q, targets, m) ==
    IF \A t \in targets : RxAlive(t)
    THEN {[ok |-> TRUE, queue |-> Enqueue(q, targets, m)]}
    ELSE {[ok |-> FALSE, queue |-> Enqueue(q, done, m)] :
             done \in SUBSET {t \in targets : RxAlive(t)}}

DisconnectMessage(username) == MessageFrom(username \o LeftSuffix, ServerName)

ShutdownMessage == MessageFrom(ShutdownText, ServerName)

\* remove_user: the registry after it, and the channels after it (a failed
\* send is dropped with .ok()).
RemoveUserClients(client_list, username) == Remove(client_list, username)

RemoveUserQueue(q, client_list, username) ==
    Enqueue(q,
            {c \in Senders({cl \in RemoveUserClients(client_list, username) :
                                cl.username # username}) : RxAlive(c)},
            DisconnectMessage(username))

remove_user(q, username) ==
    /\ LockFree
    /\ clients' = RemoveUserClients(clients, username)
    /\ queue' = RemoveUserQueue(q, clients, username)

-----------------------------------------------------------------------------
(* Server::run and handle_new_connection *)

\* Connections are numbered in the order the listener accepts them.
NextConn(c) == hstate[c] = "idle" /\ \A d \in Conn : d < c => hstate[d] # "idle"

\* run: listener.accept() gives a stream; handle_new_connection awaits the
\* first read on it inside the loop.
accept(c) ==
    /\ UNCHANGED <<cvars, kvars>>
    /\ srv = "select"
    /\ NextConn(c)
    /\ hstate' = [hstate EXCEPT ![c] = "reading"]
    /\ srv' = "reading"
    /\ ev' = NoEvent
    /\ UNCHANGED rvars
    /\ UNCHANGED <<clients, queue, uname, rtask, stask, lock, nframes, nfaults>>

\* run: listener.accept() gives an error; the pattern Ok(..) does not match,
\* select! disables the branch and waits for ctrl_c alone.
accept_error ==
    /\ UNCHANGED <<cvars, kvars>>
    /\ srv = "select"
    /\ srv' = "ctrl_c_only"
    /\ Fault
    /\ ev' = NoEvent
    /\ UNCHANGED rvars
    /\ UNCHANGED <<clients, queue, uname, hstate, rtask, stask, lock, nframes>>

\* handle_new_connection: the read gives n > 0 bytes; the handler is spawned
\* with the trimmed bytes as username.
read_username(c, raw) ==
    /\ UNCHANGED <<cvars, kvars>>
    /\ srv = "reading"
    /\ hstate[c] = "reading"
    /\ uname' = [uname EXCEPT ![c] = Trim(raw)]
    /\ hstate' = [hstate EXCEPT ![c] = "spawned"]
    /\ srv' = "select"
    /\ ev' = NoEvent
    /\ UNCHANGED rvars
    /\ UNCHANGED <<clients, queue, rtask, stask, lock, nframes, nfaults>>

\* handle_new_connection: the read gives 0 bytes; nothing is spawned.
read_closed(c) ==
    /\ UNCHANGED <<cvars, kvars>>
    /\ srv = "reading"
    /\ hstate[c] = "reading"
    /\ hstate' = [hstate EXCEPT ![c] = "closed"]
    /\ srv' = "select"
    /\ ev' = NoEvent
    /\ UNCHANGED rvars
    /\ UNCHANGED <<clients, queue, uname, rtask, stask, lock, nframes, nfaults>>

\* handle_new_connection: the read fails; `?` in run returns the error.
read_failed(c) ==
    /\ UNCHANGED <<cvars, kvars>>
    /\ srv = "reading"
    /\ hstate[c] = "reading"
    /\ hstate' = [hstate EXCEPT ![c] = "closed"]
    /\ srv' = "Err"
    /\ Fault
    /\ ev' = NoEvent
    /\ UNCHANGED rvars
    /\ UNCHANGED <<clients, queue, uname, rtask, stask, lock, nframes>>

-----------------------------------------------------------------------------
(* handle_client *)

\* handle_client takes the lock, checks the username and inserts the client.
handle_client_lock(c) ==
    /\ UNCHANGED <<cvars, kvars>>
    /\ Running
    /\ hstate[c] = "spawned"
    /\ LockFree
    /\ LET r == Handshake(clients, Client(uname[c], c)) IN
        /\ clients' = r.list
        /\ hstate' = [hstate EXCEPT ![c] = r.result]
    /\ ev' = NoEvent
    /\ UNCHANGED rvars
    /\ UNCHANGED <<queue, uname, rtask, stask, srv, lock, nframes, nfaults>>

\* handle_client spawns receive_messages and send_messages and selects.
handle_client_spawn(c) ==
    /\ UNCHANGED <<cvars, kvars>>
    /\ Running
    /\ hstate[c] = "inserted"
    /\ rtask' = [rtask EXCEPT ![c] = "run"]
    /\ stask' = [stask EXCEPT ![c] = "run"]
    /\ hstate' = [hstate EXCEPT ![c] = "select"]
    /\ ev' = NoEvent
    /\ UNCHANGED rvars
    /\ UNCHANGED <<clients, queue, uname, srv, lock, nframes, nfaults>>

Finished == {"Ok", "Err", "Panic"}

\* handle_client: select! gives the result of a task that has finished.
handle_client_join(c) ==
    /\ UNCHANGED <<cvars, kvars>>
    /\ Running
    /\ hstate[c] = "select"
    /\ \E r \in {rtask[c], stask[c]} \cap Finished :
        IF r = "Ok"
        THEN /\ hstate' = [hstate EXCEPT ![c] = "Ok"]
             /\ UNCHANGED <<clients, queue>>
        ELSE /\ remove_user(queue, uname[c])
             /\ hstate' = [hstate EXCEPT ![c] =
                              IF r = "Err" THEN "Err" ELSE "TaskJoinFailed"]
    /\ ev' = NoEvent
    /\ UNCHANGED rvars
    /\ UNCHANGED <<uname, rtask, stask, srv, lock, nframes, nfaults>>

-----------------------------------------------------------------------------
(* receive_messages *)

\* The payload p of a frame of connection c is decoded and routed: the match
\* on Message::from_bytes and on the content.
route(c, p) ==
    LET d == FromBytes(p) IN
        IF ~d.ok
        THEN \* decode error: remove_user, return Err(e)
             /\ remove_user(queue, uname[c])
             /\ rtask' = [rtask EXCEPT ![c] = "Err"]
        ELSE IF RouteKind(d.msg.content) = "none"
        THEN UNCHANGED <<clients, queue, rtask>>
        ELSE \* broadcast_message(..).await? / broadcast_file(..).await?
             /\ LockFree
             /\ \E out \in SendEach(queue,
                                    Senders(RouteTargets(clients, uname[c], d.msg)),
                                    Routed(uname[c], d.msg)) :
                 /\ queue' = out.queue
                 /\ rtask' = [rtask EXCEPT ![c] = IF out.ok THEN "run" ELSE "Err"]
             /\ UNCHANGED clients

\* One turn of the loop: a whole frame is read, decoded and routed.
receive_frame(c, p) ==
    /\ UNCHANGED <<cvars, kvars>>
    /\ Running
    /\ rtask[c] = "run"
    /\ nframes < MaxFrames
    /\ nframes' = nframes + 1
    /\ ev' = Event(c, p)
    /\ UNCHANGED rvars
    /\ route(c, p)
    /\ UNCHANGED <<uname, hstate, stask, srv, lock, nfaults>>

\* The read of the length prefix or of the payload gives an error.
receive_failed(c) ==
    /\ UNCHANGED <<cvars, kvars>>
    /\ Running
    /\ rtask[c] = "run"
    /\ remove_user(queue, uname[c])
    /\ rtask' = [rtask EXCEPT ![c] = "Err"]
    /\ Fault
    /\ ev' = NoEvent
    /\ UNCHANGED rvars
    /\ UNCHANGED <<uname, hstate, stask, srv, lock, nframes>>

\* No length prefix within HEARTBEAT_TIMEOUT.
receive_timeout(c) ==
    /\ UNCHANGED <<cvars, kvars>>
    /\ Running
    /\ rtask[c] = "run"
    /\ remove_user(queue, uname[c])
    /\ rtask' = [rtask EXCEPT ![c] = "Err"]
    /\ Fault
    /\ ev' = NoEvent
    /\ UNCHANGED rvars
    /\ UNCHANGED <<uname, hstate, stask, srv, lock, nframes>>

\* The length prefix exceeds what vec![0; n] can allocate: the task panics.
receive_panic(c) ==
    /\ UNCHANGED <<cvars, kvars>>
    /\ Running
    /\ rtask[c] = "run"
    /\ rtask' = [rtask EXCEPT ![c] = "Panic"]
    /\ Fault
    /\ ev' = NoEvent
    /\ UNCHANGED rvars
    /\ UNCHANGED <<clients, queue, uname, hstate, stask, srv, lock, nframes>>

-----------------------------------------------------------------------------
(* send_messages *)

\* rx.recv() gives a message and it is written to the stream.
send_written(c) ==
    /\ UNCHANGED <<cvars, kvars>>
    /\ Running
    /\ stask[c] = "run"
    /\ queue[c] # <<>>
    /\ queue' = [queue EXCEPT ![c] = Tail(@)]
    /\ ev' = NoEvent
    /\ UNCHANGED rvars
    /\ UNCHANGED <<clients, uname, hstate, rtask, stask, srv, lock, nframes, nfaults>>

\* rx.recv() gives a message and a write or the flush fails: remove_user,
\* then the task returns and drops rx with what the channel still holds.
send_failed(c) ==
    /\ UNCHANGED <<cvars, kvars>>
    /\ Running
    /\ stask[c] = "run"
    /\ queue[c] # <<>>
    /\ LockFree
    /\ clients' = RemoveUserClients(clients, uname[c])
    /\ queue' = [RemoveUserQueue(queue, clients, uname[c]) EXCEPT ![c] = <<>>]
    /\ stask' = [stask EXCEPT ![c] = "Err"]
    /\ Fault
    /\ ev' = NoEvent
    /\ UNCHANGED rvars
    /\ UNCHANGED <<uname, hstate, rtask, srv, lock, nframes>>

\* rx.recv() gives None: the channel is empty and no sender is left.
send_closed(c) ==
    /\ UNCHANGED <<cvars, kvars>>
    /\ Running
    /\ stask[c] = "run"
    /\ queue[c] = <<>>
    /\ ~TxAlive(c)
    /\ stask' = [stask EXCEPT ![c] = "Ok"]
    /\ ev' = NoEvent
    /\ UNCHANGED rvars
    /\ UNCHANGED <<clients, queue, uname, hstate, rtask, srv, lock, nframes, nfaults>>

\* rx.recv() gives a message and a println! of Message::as_bytes fails
\* (standard output gives an error): the task panics and drops rx with what
\* the channel still holds, and no remove_user is called.  The entry stays
\* in the registry until handle_client sees the JoinError.
send_panic(c) ==
    /\ UNCHANGED <<cvars, kvars>>
    /\ Running
    /\ stask[c] = "run"
    /\ queue[c] # <<>>
    /\ queue' = [queue EXCEPT ![c] = <<>>]
    /\ stask' = [stask EXCEPT ![c] = "Panic"]
    /\ Fault
    /\ ev' = NoEvent
    /\ UNCHANGED rvars
    /\ UNCHANGED <<clients, uname, hstate, rtask, srv, lock, nframes>>

-----------------------------------------------------------------------------
(* shutdown *)

\* run: ctrl_c; shutdown takes the lock, sends to every client and sleeps
\* with the lock held.  A failed send returns the error from run.
ctrl_c ==
    /\ UNCHANGED <<cvars, kvars>>
    /\ srv \in {"select", "ctrl_c_only"}
    /\ LockFree
    /\ \E out \in SendEach(queue, Senders(clients), ShutdownMessage) :
        /\ queue' = out.queue
        /\ srv' = IF out.ok THEN "sleep" ELSE "Err"
        /\ lock' = IF out.ok THEN "shutdown" ELSE "free"
    /\ ev' = NoEvent
    /\ UNCHANGED rvars
    /\ UNCHANGED <<clients, uname, hstate, rtask, stask, nframes, nfaults>>

\* shutdown returning after the sleep with the registry as it is.
shutdown_keep ==
    /\ UNCHANGED <<cvars, kvars>>
    /\ srv = "sleep"
    /\ lock' = "free"
    /\ srv' = "Ok"
    /\ ev' = NoEvent
    /\ UNCHANGED rvars
    /\ UNCHANGED <<clients, queue, uname, hstate, rtask, stask, nframes, nfaults>>

\* shutdown: after the sleep the registry is cleared and run returns Ok.
shutdown_clear ==
    /\ UNCHANGED <<cvars, kvars>>
    /\ srv = "sleep"
    /\ clients' = {}
    /\ lock' = "free"
    /\ srv' = "Ok"
    /\ ev' = NoEvent
    /\ UNCHANGED rvars
    /\ UNCHANGED <<queue, uname, hstate, rtask, stask, nframes, nfaults>>

-----------------------------------------------------------------------------
(* receive_messages read by read: the byte stream of one connection *)

\* The connection whose byte stream is followed, and a second participant.
RC == 1
Observer == 2

Name1 == Trim(<<"a", "b", "1">>)
Name2 == Trim(<<"b", "o", "b", "\n">>)

\* What the client of RC writes in a run: up to MaxSent frames.
FrameSeqs ==
    UNION {[1..k -> {AsBytes(p) : p \in WirePayloads}] : k \in 0..MaxSent}

\* What the client of RC writes in a run in which time is followed: up to
\* MaxBeats heartbeats, Signal(0).
BeatSeqs ==
    UNION {[1..k -> {AsBytes(Encoded(MessageFromCode(0, ClaimedSender)))}] :
             k \in 0..MaxBeats}

\* The bytes of the stream of RC: what its client wrote before the first
\* frame, then the frames.
StreamBytes == hello \o Stream(frames)

\* The offsets in the stream at which a frame ends.
FrameEnds == {Len(hello) + Len(Stream(SubSeq(frames, 1, k))) : k \in 1..Len(frames)}

\* The next n bytes of the stream.
Taken(n) == SubSeq(StreamBytes, consumed + 1, consumed + n)

\* The two participants are registered and their tasks run; the client of
\* RC has written nothing yet and receive_messages enters its loop.
ReaderStart(written) ==
    /\ clients = {Client(Name1, RC), Client(Name2, Observer)}
    /\ queue = [c \in Conn |-> <<>>]
    /\ uname = [c \in Conn |->
                  IF c = RC THEN Name1 ELSE IF c = Observer THEN Name2 ELSE <<>>]
    /\ hstate = [c \in Conn |-> IF c \in {RC, Observer} THEN "select" ELSE "idle"]
    /\ rtask = [c \in Conn |-> IF c \in {RC, Observer} THEN "run" ELSE "none"]
    /\ stask = [c \in Conn |-> IF c \in {RC, Observer} THEN "run" ELSE "none"]
    /\ srv = "select"
    /\ lock = "free"
    /\ nframes = 0
    /\ nfaults = 0
    /\ ev = NoEvent
    /\ frames \in written
    /\ arrived = 0
    /\ consumed = 0
    /\ closed = FALSE
    /\ rpc = "prefix"
    /\ length_buffer = <<>>
    /\ message_length = 0
    /\ message_buffer = <<>>
    /\ now = 0
    /\ last_activity = 0
    /\ deadline = HEARTBEAT_TIMEOUT
    /\ lastbyte = 0
    /\ lastframe = 0
    /\ regular = TRUE
    /\ log = <<>>
    /\ rerr = "none"
    /\ CodecIdle
    /\ ClientIdle

ReaderInit == ReaderStart(FrameSeqs)

WatchdogInit == ReaderStart(BeatSeqs)

\* The broker's side of the stream, unchanged by a step.
BrokerUnchanged ==
    UNCHANGED <<clients, queue, uname, hstate, rtask, stask, srv, lock, nframes,
                nfaults>>

\* The offsets at which the bytes written so far may end when time is
\* followed: in the middle of a length prefix, after it, one byte into a
\* payload, at the end of a frame.
Cuts ==
    FrameEnds
    \cup {e - Len(frames[k]) - HeaderLen \div 2 :
             e \in FrameEnds, k \in 1..Len(frames)}
    \cup {e - Len(frames[k]) + d :
             e \in FrameEnds, k \in 1..Len(frames), d \in {0, 1}}

\* The bytes the read can take now.
Ready == arrived - consumed

\* The client writes: more bytes of the stream reach the broker, up to one
\* of `offsets`.
client_write(offsets) ==
    /\ UNCHANGED <<cvars, kvars>>
    /\ Running
    /\ ~closed
    /\ \E e \in offsets \cap ((arrived + 1)..Len(StreamBytes)) :
        /\ arrived' = e
        /\ lastframe' = IF \E f \in FrameEnds : arrived < f /\ f <= e
                        THEN now ELSE lastframe
    /\ lastbyte' = now
    /\ ev' = NoEvent
    /\ BrokerUnchanged
    /\ UNCHANGED <<frames, consumed, closed, rpc, length_buffer, message_length,
                   message_buffer, now, last_activity, deadline, regular, log, rerr>>

\* The client closes the stream, with all it was to write written or not.
client_close ==
    /\ UNCHANGED <<cvars, kvars>>
    /\ Running
    /\ ~closed
    /\ closed' = TRUE
    /\ ev' = NoEvent
    /\ BrokerUnchanged
    /\ UNCHANGED <<frames, arrived, consumed, rpc, length_buffer, message_length,
                   message_buffer, now, last_activity, deadline, lastbyte,
                   lastframe, regular, log, rerr>>

\* timeout(..) gives the timer's answer whether the read is ready or not.
TimerPolledFirst == ~closed

\* The read has nothing to give and the stream is open: timeout(..) polls
\* the read first and looks at its timer only when the read is pending.
ReadPending == Ready = 0 /\ ~closed

\* timeout(HEARTBEAT_TIMEOUT, ..) of the turn that starts at t.
Rearm(t) == t + HEARTBEAT_TIMEOUT

\* last_activity.elapsed() > HEARTBEAT_TIMEOUT.  last_activity is assigned
\* before the timer of the turn is armed, and the clock is read here after
\* the timer has ended: the time elapsed is the differences of the two
\* readings in seconds plus the time the program ran in between, which is
\* more than nothing and less than a second.
HeartbeatExpired == now - last_activity >= HEARTBEAT_TIMEOUT

\* read_exact on the length prefix, one underlying read: n bytes arrive in
\* length_buffer; with the 8th the length is known and the payload buffer
\* is allocated.
read_length(sizes) ==
    /\ UNCHANGED <<cvars, kvars>>
    /\ Running
    /\ rtask[RC] = "run"
    /\ rpc = "prefix"
    /\ \E n \in sizes \cap (1..Min(HeaderLen - Len(length_buffer), Ready)) :
        /\ consumed' = consumed + n
        /\ length_buffer' = length_buffer \o Taken(n)
        /\ IF Len(length_buffer) + n < HeaderLen
           THEN UNCHANGED <<rpc, message_length, message_buffer, last_activity>>
           ELSE /\ last_activity' = now
                /\ message_length' = FromBeBytes(length_buffer \o Taken(n))
                /\ message_buffer' = <<>>
                /\ rpc' = IF FromBeBytes(length_buffer \o Taken(n)) > 0
                          THEN "payload" ELSE "decode"
    /\ ev' = NoEvent
    /\ BrokerUnchanged
    /\ UNCHANGED <<frames, arrived, closed, now, deadline, lastbyte, lastframe,
                   regular, log, rerr>>

\* The payload loop, one read: n > 0 bytes, at most chunk_size.
read_payload(sizes) ==
    /\ UNCHANGED <<cvars, kvars>>
    /\ Running
    /\ rtask[RC] = "run"
    /\ rpc = "payload"
    /\ \E n \in sizes \cap (1..Min(ChunkSize(message_length - Len(message_buffer)),
                                   Ready)) :
        /\ consumed' = consumed + n
        /\ message_buffer' = message_buffer \o Taken(n)
        /\ rpc' = IF Len(message_buffer) + n < message_length
                  THEN "payload" ELSE "decode"
    /\ last_activity' = now
    /\ ev' = NoEvent
    /\ BrokerUnchanged
    /\ UNCHANGED <<frames, arrived, closed, length_buffer, message_length, now,
                   deadline, lastbyte, lastframe, regular, log, rerr>>

\* The payload loop, one read at the end of the stream: Ok(0) => continue.
read_payload_eof ==
    /\ Running
    /\ rtask[RC] = "run"
    /\ rpc = "payload"
    /\ arrived = consumed
    /\ closed
    /\ UNCHANGED vars

\* read_exact on the length prefix meets the end of the stream: the error
\* UnexpectedEof, remove_user, Err(MessageReceiveFailed).
read_length_eof ==
    /\ UNCHANGED <<cvars, kvars>>
    /\ Running
    /\ rtask[RC] = "run"
    /\ rpc = "prefix"
    /\ arrived = consumed
    /\ closed
    /\ remove_user(queue, uname[RC])
    /\ rtask' = [rtask EXCEPT ![RC] = "Err"]
    /\ rerr' = "MessageReceiveFailed"
    /\ ev' = NoEvent
    /\ UNCHANGED <<uname, hstate, stask, srv, lock, nframes, nfaults>>
    /\ UNCHANGED <<frames, arrived, consumed, closed, rpc, length_buffer,
                   message_length, message_buffer, now, last_activity, deadline,
                   lastbyte, lastframe, regular, log>>

\* The timer of timeout(..) ends with the read of the prefix pending.
TimedOut == rpc = "prefix" /\ ReadPending /\ now >= deadline

\* Err(_) of the match: remove_user and Err(HeartBeatTimeOut) if
\* last_activity is too old; the next turn, with a new read_exact and a new
\* timer, if not.
read_timeout ==
    /\ UNCHANGED <<cvars, kvars>>
    /\ Running
    /\ rtask[RC] = "run"
    /\ TimedOut
    /\ IF HeartbeatExpired
       THEN /\ remove_user(queue, uname[RC])
            /\ rtask' = [rtask EXCEPT ![RC] = "Err"]
            /\ rerr' = "HeartBeatTimeOut"
            /\ UNCHANGED <<length_buffer, deadline>>
       ELSE /\ length_buffer' = <<>>
            /\ deadline' = Rearm(now)
            /\ UNCHANGED <<clients, queue, rtask, rerr>>
    /\ ev' = NoEvent
    /\ UNCHANGED <<uname, hstate, stask, srv, lock, nframes, nfaults>>
    /\ UNCHANGED <<frames, arrived, consumed, closed, rpc, message_length,
                   message_buffer, now, last_activity, lastbyte, lastframe,
                   regular, log>>

\* The payload is whole: Message::from_bytes and the routing, then the next
\* turn of the loop with a new timer.
decode_frame ==
    /\ UNCHANGED <<cvars, kvars>>
    /\ Running
    /\ rtask[RC] = "run"
    /\ rpc = "decode"
    /\ nframes' = nframes + 1
    /\ ev' = Event(RC, FromWire(message_buffer))
    /\ log' = Append(log, message_buffer)
    /\ route(RC, FromWire(message_buffer))
    /\ rerr' = IF ~FromBytes(FromWire(message_buffer)).ok
               THEN "MessageConversionFailed"
               ELSE IF rtask'[RC] = "Err" THEN "MessageSendFailed" ELSE rerr
    /\ rpc' = "prefix"
    /\ length_buffer' = <<>>
    /\ message_buffer' = <<>>
    /\ deadline' = Rearm(now)
    /\ UNCHANGED <<uname, hstate, stask, srv, lock, nfaults>>
    /\ UNCHANGED <<frames, arrived, consumed, closed, message_length, now,
                   last_activity, lastbyte, lastframe, regular>>

\* Time passes, unless a timer has ended and is still to be served.
tick ==
    /\ UNCHANGED <<cvars, kvars>>
    /\ Running
    /\ rtask[RC] = "run"
    /\ now + Tick <= MaxTime
    /\ ~TimedOut
    /\ now' = now + Tick
    /\ regular' = (regular /\ now + Tick - lastframe < HEARTBEAT_TIMEOUT)
    /\ ev' = NoEvent
    /\ BrokerUnchanged
    /\ UNCHANGED <<frames, arrived, consumed, closed, rpc, length_buffer,
                   message_length, message_buffer, last_activity, deadline,
                   lastbyte, lastframe, log, rerr>>

\* The steps of receive_messages of RC that change something.
ReaderStep ==
    \/ read_length(1..HeaderLen)
    \/ read_payload(1..BUFFER_SIZE)
    \/ read_length_eof
    \/ read_timeout
    \/ decode_frame

\* The stream of RC with every chunking of its bytes, in no time: the
\* client writes any number of bytes at once, a read gives any number of
\* the bytes that are there.
ReaderNext ==
    \/ client_write(1..Len(StreamBytes))
    \/ client_close
    \/ read_length(1..HeaderLen)
    \/ read_payload(1..BUFFER_SIZE)
    \/ read_payload_eof
    \/ read_length_eof
    \/ decode_frame
    \/ send_written(Observer)
    \/ handle_client_join(RC)

ReaderSpec == ReaderInit /\ [][ReaderNext]_vars

\* The stream of RC in time: the client writes up to one of Cuts, a read
\* gives all the bytes that are there (as many as it asked for), the clock
\* advances.
WatchdogNext ==
    \/ client_write(Cuts)
    \/ client_close
    \/ read_length({Min(HeaderLen - Len(length_buffer), Ready)})
    \/ read_payload({Min(ChunkSize(message_length - Len(message_buffer)), Ready)})
    \/ read_payload_eof
    \/ read_length_eof
    \/ read_timeout
    \/ decode_frame
    \/ tick

WatchdogSpec == WatchdogInit /\ [][WatchdogNext]_vars

-----------------------------------------------------------------------------

-----------------------------------------------------------------------------
(* Fan-out to a participant whose writer has ended *)

Name3 == Trim(<<"z", "e", "d">>)

\* A participant that left before the run.
Gone == Trim(<<"a", "b", "!">>)

\* The connections of the three participants.
Members == 1..3

MemberName(c) == IF c = 1 THEN Name1 ELSE IF c = 2 THEN Name2 ELSE Name3

\* Three participants are registered and their tasks run; each channel is
\* empty or still holds the leave message of a fourth participant.
FanoutInit ==
    /\ clients = {Client(MemberName(c), c) : c \in Members}
    /\ queue \in [Conn -> {<<>>, <<DisconnectMessage(Gone)>>}]
    /\ \A c \in Conn \ Members : queue[c] = <<>>
    /\ uname = [c \in Conn |-> IF c \in Members THEN MemberName(c) ELSE <<>>]
    /\ hstate = [c \in Conn |-> IF c \in Members THEN "select" ELSE "idle"]
    /\ rtask = [c \in Conn |-> IF c \in Members THEN "run" ELSE "none"]
    /\ stask = [c \in Conn |-> IF c \in Members THEN "run" ELSE "none"]
    /\ srv = "select"
    /\ lock = "free"
    /\ nframes = 0
    /\ nfaults = 0
    /\ ev = NoEvent
    /\ ReaderIdle
    /\ CodecIdle
    /\ ClientIdle

FanoutNext ==
    \/ \E c \in Conn, p \in Payloads : receive_frame(c, p)
    \/ \E c \in Conn : send_written(c)
    \/ \E c \in Conn : send_failed(c)
    \/ \E c \in Conn : send_panic(c)
    \/ \E c \in Conn : handle_client_join(c)
    \/ ctrl_c
    \/ shutdown_clear

FanoutSpec == FanoutInit /\ [][FanoutNext]_vars

-----------------------------------------------------------------------------
(* One message through as_bytes and from_bytes *)

\* The messages given to as_bytes: a sender as the handshake leaves it and
\* one with whitespace around it; a text, the empty text and a file; both
\* kinds; times at both ends of the signed and of the unsigned 32-bit
\* range and in between, with and without a sub-second part.
CodecSenders == {<<"a", "b", "1">>, <<" ", "a", "b", "1", "\n">>}

CodecContents == {Text(<<"h", "i">>), Text(<<>>), File(<<"n">>, <<104, 200>>)}

CodecTimes ==
    {DateTime(hi, lo, nanos) :
        hi \in {0, 26000, Half \div 2 - 1, Half \div 2, Half - 1},
        lo \in {0, Half - 1},
        nanos \in {0, 500000000}}

CodecMessages ==
    {Message(s, c, k, t) :
        s \in CodecSenders, c \in CodecContents, k \in {Private, Public},
        t \in CodecTimes}

\* Byte strings that are no output of as_bytes: the empty string; a sender
\* and nothing else (no content field); a content and a field the message
\* does not declare (field 7); a kind that is no MessageType (7); a text
\* whose length says 5 with 1 byte left.
Forged ==
    { <<>>,
      DelimitedField(2, Utf8(<<"a", "b", "1">>)),
      DelimitedField(3, Utf8(<<"h", "i">>)) \o <<7 * 8, 1>>,
      DelimitedField(3, Utf8(<<"h", "i">>)) \o <<5 * 8, 7>>,
      <<3 * 8 + 2, 5, 104>> }

CodecInit ==
    /\ clients = {}
    /\ queue = [c \in Conn |-> <<>>]
    /\ uname = [c \in Conn |-> <<>>]
    /\ hstate = [c \in Conn |-> "idle"]
    /\ rtask = [c \in Conn |-> "none"]
    /\ stask = [c \in Conn |-> "none"]
    /\ srv = "select"
    /\ lock = "free"
    /\ nframes = 0
    /\ nfaults = 0
    /\ ev = NoEvent
    /\ ReaderIdle
    /\ ClientIdle
    /\ original \in CodecMessages
    /\ wire = <<>>
    /\ origin = "none"
    /\ cstep = "message"
    /\ decoded = MessageConversionFailed

\* The codec touches neither the broker nor a stream.
CodecOnly ==
    UNCHANGED <<clients, queue, uname, hstate, rtask, stask, srv, lock, nframes,
                nfaults, ev, rvars, kvars>>

\* let message_bytes = message.as_bytes()?
encode ==
    /\ cstep = "message"
    /\ wire' = as_bytes(original)
    /\ origin' = "encoded"
    /\ cstep' = "bytes"
    /\ UNCHANGED <<original, decoded>>
    /\ CodecOnly

\* Only the first n bytes of the encoding are kept.
truncate(n) ==
    /\ cstep = "bytes"
    /\ origin = "encoded"
    /\ n < Len(wire)
    /\ wire' = SubSeq(wire, 1, n)
    /\ origin' = "truncated"
    /\ UNCHANGED <<original, cstep, decoded>>
    /\ CodecOnly

\* The bytes come from somewhere else than as_bytes.
forge(b) ==
    /\ cstep = "message"
    /\ wire' = b
    /\ origin' = "forged"
    /\ cstep' = "bytes"
    /\ UNCHANGED <<original, decoded>>
    /\ CodecOnly

\* Message::from_bytes(&message_buffer)
decode ==
    /\ cstep = "bytes"
    /\ decoded' = from_bytes(wire)
    /\ cstep' = "decoded"
    /\ UNCHANGED <<original, wire, origin>>
    /\ CodecOnly

CodecNext ==
    \/ encode
    \/ \E n \in 0..Len(wire) : truncate(n)
    \/ \E b \in Forged : forge(b)
    \/ decode

CodecSpec == CodecInit /\ [][CodecNext]_vars

-----------------------------------------------------------------------------
(* Client::connect_with_retry *)

\* u8: `retries` and `attempt`.
U8 == 256

\* The arguments connect_with_retry is called with.
RetryInit ==
    /\ BrokerIdle
    /\ ReaderIdle
    /\ CodecIdle
    /\ WriterIdle
    /\ DownstreamIdle
    /\ NoHello
    /\ LockIdle
    /\ retries \in 0..MaxRetries
    /\ delay \in 0..MaxDelay
    /\ attempt = 0
    /\ cpc = "for"
    /\ tried = <<>>
    /\ waited = 0
    /\ result = NoResult

\* connect_with_retry touches neither the broker, a stream nor the codec.
RetryOnly == UNCHANGED <<bvars, rvars, cvars, wvars, dvars, hello, lvars>>

\* The test after a failed attempt with the sleep made after every one.
RetryAfterEvery(a, r) == TRUE

\* `if attempt < retries - 1`, in u8 (evaluated in the loop body only,
\* where retries >= 1).
RetryAfter(a, r) == a < (r + U8 - 1) % U8

\* `for attempt in 0..retries`: the range gives the next value.
for_next ==
    /\ cpc = "for"
    /\ attempt < retries
    /\ cpc' = "connect"
    /\ UNCHANGED <<retries, delay, attempt, tried, waited, result>>
    /\ RetryOnly

\* `for attempt in 0..retries`: the range is exhausted;
\* Err(Error::ConnectionFailed(retries)).
for_end ==
    /\ cpc = "for"
    /\ ~(attempt < retries)
    /\ cpc' = "return"
    /\ result' = ConnectionFailed(retries)
    /\ UNCHANGED <<retries, delay, attempt, tried, waited>>
    /\ RetryOnly

\* TcpStream::connect gives Ok(stream): return Ok(stream).
connect_ok ==
    /\ cpc = "connect"
    /\ tried' = Append(tried, "Ok")
    /\ cpc' = "return"
    /\ result' = Connected
    /\ UNCHANGED <<retries, delay, attempt, waited>>
    /\ RetryOnly

\* TcpStream::connect gives Err(e): sleep if this was not the last value of
\* the range, go to the next value otherwise.
connect_err ==
    /\ cpc = "connect"
    /\ tried' = Append(tried, "Err")
    /\ IF RetryAfter(attempt, retries)
       THEN cpc' = "sleep" /\ attempt' = attempt
       ELSE cpc' = "for" /\ attempt' = attempt + 1
    /\ UNCHANGED <<retries, delay, waited, result>>
    /\ RetryOnly

\* sleep(Duration::from_secs(delay)) ends.
retry_sleep ==
    /\ cpc = "sleep"
    /\ waited' = waited + delay
    /\ cpc' = "for"
    /\ attempt' = attempt + 1
    /\ UNCHANGED <<retries, delay, tried, result>>
    /\ RetryOnly

RetryNext ==
    \/ for_next
    \/ for_end
    \/ connect_ok
    \/ connect_err
    \/ retry_sleep

RetrySpec == RetryInit /\ [][RetryNext]_vars

-----------------------------------------------------------------------------
(* The client's write half: Client::send_messages and Client::send_heartbeat *)

\* The payloads send_messages writes: the encodings of a text, of a longer
\* text and of a file.
TypedPayloads ==
    { AsBytes(Encoded(MessageFrom(Hi, ClaimedSender))),
      AsBytes(Encoded(MessageFrom(WhisperBob, ClaimedSender))),
      AsBytes(Encoded(MessageFromFile(NoteData, NoteName, ClaimedSender))) }

\* Message::from_code(0, &username).as_bytes()
HeartbeatBytes == AsBytes(Encoded(MessageFromCode(0, ClaimedSender)))

\* The username has been written; the two tasks have been spawned.
WriterInit ==
    /\ BrokerIdle
    /\ ReaderIdle
    /\ CodecIdle
    /\ RetryIdle
    /\ WriterIdle
    /\ DownstreamIdle
    /\ NoHello
    /\ LockIdle

WriterOnly == UNCHANGED <<bvars, rvars, cvars, tvars, dvars, hello, lvars>>

\* A Mutex that excludes nobody.
WriterNeverHeld == TRUE

\* writer.lock().await returns when no guard of the Mutex is alive.
WriterFree == wguard = "free"

\* send_messages: a line is read from stdin and the message is encoded.
m_input(payload) ==
    /\ mpc = "input"
    /\ nsent < MaxSent
    /\ message_bytes' = payload
    /\ nsent' = nsent + 1
    /\ mpc' = "lock"
    /\ UNCHANGED <<wguard, upstream, bpc, pending, nbeats>>
    /\ WriterOnly

\* send_messages: let mut writer = writer.lock().await
m_lock ==
    /\ mpc = "lock"
    /\ WriterFree
    /\ wguard' = "send_messages"
    /\ mpc' = "prefix"
    /\ UNCHANGED <<upstream, bpc, message_bytes, pending, nsent, nbeats>>
    /\ WriterOnly

\* send_messages: writer.write_all(&message_len.to_be_bytes())
m_prefix ==
    /\ mpc = "prefix"
    /\ upstream' = upstream \o ToBeBytes(Len(message_bytes))
    /\ pending' = Chunks(message_bytes, BUFFER_SIZE)
    /\ mpc' = "chunks"
    /\ UNCHANGED <<wguard, bpc, message_bytes, nsent, nbeats>>
    /\ WriterOnly

\* send_messages: writer.write_all(chunk) of the next chunk.
m_chunk ==
    /\ mpc = "chunks"
    /\ pending # <<>>
    /\ upstream' = upstream \o Head(pending)
    /\ pending' = Tail(pending)
    /\ UNCHANGED <<wguard, mpc, bpc, message_bytes, nsent, nbeats>>
    /\ WriterOnly

\* send_messages: the chunks are written; the guard goes out of scope at
\* the end of the branch.
m_unlock ==
    /\ mpc = "chunks"
    /\ pending = <<>>
    /\ wguard' = "free"
    /\ mpc' = "flush"
    /\ UNCHANGED <<upstream, bpc, message_bytes, pending, nsent, nbeats>>
    /\ WriterOnly

\* send_messages: writer.lock().await of the flush statement.
m_flush_lock ==
    /\ mpc = "flush"
    /\ WriterFree
    /\ wguard' = "send_messages"
    /\ mpc' = "flushing"
    /\ UNCHANGED <<upstream, bpc, message_bytes, pending, nsent, nbeats>>
    /\ WriterOnly

\* send_messages: .flush().await returns and the temporary guard is
\* dropped; the loop starts again.
m_flush ==
    /\ mpc = "flushing"
    /\ wguard' = "free"
    /\ mpc' = "input"
    /\ UNCHANGED <<upstream, bpc, message_bytes, pending, nsent, nbeats>>
    /\ WriterOnly

\* send_heartbeat: sleep(1 s) ends and the heartbeat is encoded.
b_sleep ==
    /\ bpc = "sleep"
    /\ nbeats < MaxBeats
    /\ nbeats' = nbeats + 1
    /\ bpc' = "lock"
    /\ UNCHANGED <<wguard, upstream, mpc, message_bytes, pending, nsent>>
    /\ WriterOnly

\* send_heartbeat: let mut writer = writer.lock().await
b_lock ==
    /\ bpc = "lock"
    /\ WriterFree
    /\ wguard' = "send_heartbeat"
    /\ bpc' = "prefix"
    /\ UNCHANGED <<upstream, mpc, message_bytes, pending, nsent, nbeats>>
    /\ WriterOnly

\* send_heartbeat: writer.write_all(&heartbeat_len.to_be_bytes())
b_prefix ==
    /\ bpc = "prefix"
    /\ upstream' = upstream \o ToBeBytes(Len(HeartbeatBytes))
    /\ bpc' = "payload"
    /\ UNCHANGED <<wguard, mpc, message_bytes, pending, nsent, nbeats>>
    /\ WriterOnly

\* send_heartbeat: writer.write_all(&heartbeat_bytes)
b_payload ==
    /\ bpc = "payload"
    /\ upstream' = upstream \o HeartbeatBytes
    /\ bpc' = "flush"
    /\ UNCHANGED <<wguard, mpc, message_bytes, pending, nsent, nbeats>>
    /\ WriterOnly

\* send_heartbeat: writer.flush(); the guard goes out of scope at the end
\* of the loop body.
b_flush ==
    /\ bpc = "flush"
    /\ wguard' = "free"
    /\ bpc' = "sleep"
    /\ UNCHANGED <<upstream, mpc, message_bytes, pending, nsent, nbeats>>
    /\ WriterOnly

WriterNext ==
    \/ \E payload \in TypedPayloads : m_input(payload)
    \/ m_lock
    \/ m_prefix
    \/ m_chunk
    \/ m_unlock
    \/ m_flush_lock
    \/ m_flush
    \/ b_sleep
    \/ b_lock
    \/ b_prefix
    \/ b_payload
    \/ b_flush

WriterSpec == WriterInit /\ [][WriterNext]_vars

-----------------------------------------------------------------------------
(* The client's read half: Client::receive_messages and run_client *)

\* What the broker writes to a client in a run: up to MaxSent frames, each
\* the encoding of a routed text, of a longer one or of a file.
ServedSeqs ==
    UNION {[1..k -> TypedPayloads] : k \in 0..MaxSent}

\* The client is connected, its three tasks are spawned and run_client is
\* in its select!; the broker has written nothing yet.  `frames` are the
\* payloads the broker writes, `arrived` and `consumed` count the bytes
\* that reached the client and that receive_messages has read.
DownstreamInit ==
    /\ BrokerIdle
    /\ CodecIdle
    /\ RetryIdle
    /\ WriterIdle
    /\ NoHello
    /\ LockIdle
    /\ ctask = "run"
    /\ crun = "select"
    /\ frames \in ServedSeqs
    /\ arrived = 0
    /\ consumed = 0
    /\ closed = FALSE
    /\ rpc = "prefix"
    /\ length_buffer = <<>>
    /\ message_length = 0
    /\ message_buffer = <<>>
    /\ now = 0
    /\ last_activity = 0
    /\ deadline = HEARTBEAT_TIMEOUT
    /\ lastbyte = 0
    /\ lastframe = 0
    /\ regular = TRUE
    /\ log = <<>>
    /\ rerr = "none"

\* What a step of the client's read half leaves alone.
DownstreamOnly ==
    UNCHANGED <<bvars, cvars, tvars, wvars, hello, lvars, frames, now,
                last_activity, deadline, lastbyte, lastframe, regular>>

\* The broker's send_messages writes: more bytes of the stream reach the
\* client.
server_write ==
    /\ ~closed
    /\ \E e \in (arrived + 1)..Len(StreamBytes) : arrived' = e
    /\ UNCHANGED <<consumed, closed, rpc, length_buffer, message_length,
                   message_buffer, log, rerr, ctask, crun>>
    /\ DownstreamOnly

\* The broker closes the connection, with all it was to write written or
\* not.
server_close ==
    /\ ~closed
    /\ closed' = TRUE
    /\ UNCHANGED <<arrived, consumed, rpc, length_buffer, message_length,
                   message_buffer, log, rerr, ctask, crun>>
    /\ DownstreamOnly

\* read_exact on the length prefix, one underlying read of n bytes; with
\* the 8th the length is known and the payload buffer is allocated.
c_read_length(n) ==
    /\ ctask = "run"
    /\ rpc = "prefix"
    /\ n \in 1..Min(HeaderLen - Len(length_buffer), Ready)
    /\ consumed' = consumed + n
    /\ length_buffer' = length_buffer \o Taken(n)
    /\ IF Len(length_buffer) + n < HeaderLen
       THEN UNCHANGED <<rpc, message_length, message_buffer>>
       ELSE /\ message_length' = FromBeBytes(length_buffer \o Taken(n))
            /\ message_buffer' = <<>>
            /\ rpc' = IF FromBeBytes(length_buffer \o Taken(n)) > 0
                      THEN "payload" ELSE "decode"
    /\ UNCHANGED <<arrived, closed, log, rerr, ctask, crun>>
    /\ DownstreamOnly

\* read_exact on the length prefix meets the end of the stream:
\* UnexpectedEof, Err(Error::Disconnected(..)).
c_read_length_eof ==
    /\ ctask = "run"
    /\ rpc = "prefix"
    /\ Ready = 0
    /\ closed
    /\ ctask' = "Err"
    /\ rerr' = "Disconnected"
    /\ UNCHANGED <<arrived, consumed, closed, rpc, length_buffer, message_length,
                   message_buffer, log, crun>>
    /\ DownstreamOnly

\* The payload loop, one read: Ok(n) if n > 0, at most chunk_size bytes.
c_read_payload(n) ==
    /\ ctask = "run"
    /\ rpc = "payload"
    /\ n \in 1..Min(ChunkSize(message_length - Len(message_buffer)), Ready)
    /\ consumed' = consumed + n
    /\ message_buffer' = message_buffer \o Taken(n)
    /\ rpc' = IF Len(message_buffer) + n < message_length THEN "payload" ELSE "decode"
    /\ UNCHANGED <<arrived, closed, length_buffer, message_length, log, rerr,
                   ctask, crun>>
    /\ DownstreamOnly

\* The payload loop, one read at the end of the stream: `Ok(0) => {}`, and
\* the loop tests bytes_read < message_length again.
c_read_payload_eof ==
    /\ ctask = "run"
    /\ rpc = "payload"
    /\ Ready = 0
    /\ closed
    /\ UNCHANGED vars

\* The payload is whole: Message::from_bytes; the message is printed (a
\* file is saved) and the loop starts again, or the error is returned.
c_decode ==
    /\ ctask = "run"
    /\ rpc = "decode"
    /\ log' = Append(log, message_buffer)
    /\ IF FromBytes(FromWire(message_buffer)).ok
       THEN /\ rpc' = "prefix"
            /\ length_buffer' = <<>>
            /\ message_buffer' = <<>>
            /\ UNCHANGED <<ctask, rerr>>
       ELSE /\ ctask' = "Err"
            /\ rerr' = "MessageConversionFailed"
            /\ UNCHANGED <<rpc, length_buffer, message_buffer>>
    /\ UNCHANGED <<arrived, consumed, closed, message_length, crun>>
    /\ DownstreamOnly

\* The payload is whole and decodes to a file, and save_file fails
\* (File::create or write_all gives an error): the error is returned.
c_save_failed ==
    /\ ctask = "run"
    /\ rpc = "decode"
    /\ FromBytes(FromWire(message_buffer)).ok
    /\ FromWire(message_buffer).msg.content.tag = "File"
    /\ log' = Append(log, message_buffer)
    /\ ctask' = "Err"
    /\ rerr' = "FailedToCreateFile"
    /\ UNCHANGED <<arrived, consumed, closed, rpc, length_buffer, message_length,
                   message_buffer, crun>>
    /\ DownstreamOnly

\* run_client: the select! takes the result of receive_task; `??` returns
\* its error.
run_client_join ==
    /\ crun = "select"
    /\ ctask = "Err"
    /\ crun' = "Err"
    /\ UNCHANGED <<arrived, consumed, closed, rpc, length_buffer, message_length,
                   message_buffer, log, rerr, ctask>>
    /\ DownstreamOnly

\* The steps of the client's receive_messages that change something.
ClientReaderStep ==
    \/ \E n \in 1..HeaderLen : c_read_length(n)
    \/ \E n \in 1..BUFFER_SIZE : c_read_payload(n)
    \/ c_read_length_eof
    \/ c_decode
    \/ c_save_failed

DownstreamNext ==
    \/ server_write
    \/ server_close
    \/ \E n \in 1..HeaderLen : c_read_length(n)
    \/ c_read_length_eof
    \/ \E n \in 1..BUFFER_SIZE : c_read_payload(n)
    \/ c_read_payload_eof
    \/ c_decode
    \/ c_save_failed
    \/ run_client_join

DownstreamSpec == DownstreamInit /\ [][DownstreamNext]_vars

-----------------------------------------------------------------------------
(* The first bytes of a connection: the username, then the frames *)

\* What the client of RC writes before its first frame,
\* writer.write_all(username.as_bytes()): usernames shorter than the buffer
\* of handle_new_connection and as long as it (the buffer is scaled down,
\* and so are they).
Hellos == {SubSeq(Utf8(Name1), 1, k) : k \in 1..BUFFER_SIZE}

\* What the client of RC writes after it in a run: nothing, a text or a
\* heartbeat.
HelloFrames ==
    {<<>>, <<AsBytes(Encoded(MessageFrom(Hi, ClaimedSender)))>>, <<HeartbeatBytes>>}

\* A participant is registered and its tasks run; RC has not connected yet.
HandshakeInit ==
    /\ clients = {Client(Name2, Observer)}
    /\ queue = [c \in Conn |-> <<>>]
    /\ uname = [c \in Conn |-> IF c = Observer THEN Name2 ELSE <<>>]
    /\ hstate = [c \in Conn |-> IF c = Observer THEN "select" ELSE "idle"]
    /\ rtask = [c \in Conn |-> IF c = Observer THEN "run" ELSE "none"]
    /\ stask = [c \in Conn |-> IF c = Observer THEN "run" ELSE "none"]
    /\ srv = "select"
    /\ lock = "free"
    /\ nframes = 0
    /\ nfaults = 0
    /\ ev = NoEvent
    /\ CodecIdle
    /\ RetryIdle
    /\ WriterIdle
    /\ DownstreamIdle
    /\ LockIdle
    /\ hello \in Hellos
    /\ frames \in HelloFrames
    /\ arrived = 0
    /\ consumed = 0
    /\ closed = FALSE
    /\ rpc = "prefix"
    /\ length_buffer = <<>>
    /\ message_length = 0
    /\ message_buffer = <<>>
    /\ now = 0
    /\ last_activity = 0
    /\ deadline = HEARTBEAT_TIMEOUT
    /\ lastbyte = 0
    /\ lastframe = 0
    /\ regular = TRUE
    /\ log = <<>>
    /\ rerr = "none"

\* handle_new_connection: the one stream.read(&mut buffer) gives n > 0
\* bytes, at most the buffer; the handler is spawned with these bytes,
\* from_utf8_lossy and trimmed, as username.
read_username_bytes(sizes) ==
    /\ UNCHANGED <<cvars, kvars>>
    /\ srv = "reading"
    /\ hstate[RC] = "reading"
    /\ \E n \in sizes \cap (1..Min(BUFFER_SIZE, Ready)) :
        /\ consumed' = consumed + n
        /\ uname' = [uname EXCEPT ![RC] = Trim(FromUtf8(Taken(n)))]
    /\ hstate' = [hstate EXCEPT ![RC] = "spawned"]
    /\ srv' = "select"
    /\ ev' = NoEvent
    /\ UNCHANGED <<clients, queue, rtask, stask, lock, nframes, nfaults>>
    /\ UNCHANGED <<frames, arrived, closed, rpc, length_buffer, message_length,
                   message_buffer, now, last_activity, deadline, lastbyte,
                   lastframe, regular, log, rerr>>

\* handle_new_connection: the read gives 0 bytes, the stream has ended;
\* nothing is spawned.
read_username_eof ==
    /\ Ready = 0
    /\ closed
    /\ read_closed(RC)

HandshakeNext ==
    \/ accept(RC)
    \/ client_write(1..Len(StreamBytes))
    \/ client_close
    \/ read_username_bytes(1..BUFFER_SIZE)
    \/ read_username_eof
    \/ handle_client_lock(RC)
    \/ handle_client_spawn(RC)
    \/ read_length(1..HeaderLen)
    \/ read_payload(1..BUFFER_SIZE)
    \/ read_payload_eof
    \/ read_length_eof
    \/ decode_frame
    \/ send_written(Observer)
    \/ handle_client_join(RC)

HandshakeSpec == HandshakeInit /\ [][HandshakeNext]_vars

-----------------------------------------------------------------------------
(* The registry lock, acquisition by acquisition *)

Contenders == 1..MaxContenders

\* Server::run, and the three tasks of each connection.
RunTask == <<"run", 0>>

Handler(c) == <<"handle_client", c>>

Reader(c) == <<"receive_messages", c>>

Writer(c) == <<"send_messages", c>>

Tasks ==
    {RunTask} \cup {Handler(c) : c \in Contenders}
              \cup {Reader(c) : c \in Contenders}
              \cup {Writer(c) : c \in Contenders}

\* run is in its select!; no connection has been accepted.
LockInit ==
    /\ BrokerIdle
    /\ ReaderIdle
    /\ CodecIdle
    /\ RetryIdle
    /\ WriterIdle
    /\ DownstreamIdle
    /\ NoHello
    /\ lpc = [t \in Tasks |-> IF t = RunTask THEN "select" ELSE "none"]
    /\ holder = NoTask

LockOnly == UNCHANGED <<bvars, rvars, cvars, tvars, wvars, dvars, hello>>

\* The task is at a clients.lock().await.
Waiting == {"wait_handshake", "wait_broadcast", "wait_remove", "wait_shutdown"}

\* Where the task is when the lock().await it waited at has returned.
Entered(p) ==
    CASE p = "wait_handshake" -> "handshake"
      [] p = "wait_broadcast" -> "broadcast"
      [] p = "wait_remove" -> "remove"
      [] p = "wait_shutdown" -> "shutdown"

\* Server::run has returned.
Exited == lpc[RunTask] = "done"

\* Task t goes to q and the guards stay as they are.
Move(t, q) ==
    /\ ~Exited
    /\ lpc' = [lpc EXCEPT ![t] = q]
    /\ UNCHANGED holder
    /\ LockOnly

\* Task t goes to q and its guard is dropped.
Release(t, q) ==
    /\ ~Exited
    /\ holder = t
    /\ lpc' = [lpc EXCEPT ![t] = q]
    /\ holder' = NoTask
    /\ LockOnly

\* Mutex::lock().await returns to t: no guard is alive.
acquire(t) ==
    /\ ~Exited
    /\ lpc[t] \in Waiting
    /\ holder = NoTask
    /\ lpc' = [lpc EXCEPT ![t] = Entered(lpc[t])]
    /\ holder' = t
    /\ LockOnly

\* run accepts a connection and handle_client is spawned; it reaches
\* clients.lock().await.
h_spawn(c) ==
    /\ lpc[RunTask] = "select"
    /\ lpc[Handler(c)] = "none"
    /\ Move(Handler(c), "wait_handshake")

\* handle_client: the username is in the registry; return
\* Err(UsernameTaken), which drops client_list.
h_taken(c) ==
    /\ lpc[Handler(c)] = "handshake"
    /\ Release(Handler(c), "done")

\* handle_client: insert, drop(client_list), and the two tasks are spawned.
h_inserted(c) ==
    /\ ~Exited
    /\ lpc[Handler(c)] = "handshake"
    /\ holder = Handler(c)
    /\ lpc' = [lpc EXCEPT ![Handler(c)] = "select",
                          ![Reader(c)] = "loop",
                          ![Writer(c)] = "loop"]
    /\ holder' = NoTask
    /\ LockOnly

\* handle_client: the select! gives the error of a task that has ended;
\* remove_user reaches clients.lock().await.
h_join(c) ==
    /\ "done" \in {lpc[Reader(c)], lpc[Writer(c)]}
    /\ lpc[Handler(c)] = "select"
    /\ Move(Handler(c), "wait_remove")

\* handle_client: the select! gives Ok(()) of send_messages.
h_join_ok(c) ==
    /\ lpc[Writer(c)] = "done"
    /\ lpc[Handler(c)] = "select"
    /\ Move(Handler(c), "done")

\* receive_messages: a frame decodes to a text or a file; broadcast_message
\* or broadcast_file reaches clients.lock().await.
r_frame(c) ==
    /\ lpc[Reader(c)] = "loop"
    /\ Move(Reader(c), "wait_broadcast")

\* broadcast_message, broadcast_file: the loop over the registry is done
\* and the function returns Ok(()), which drops the guard.
r_broadcast(c) ==
    /\ lpc[Reader(c)] = "broadcast"
    /\ Release(Reader(c), "loop")

\* broadcast_message, broadcast_file: a send fails, `?` returns the error
\* (the guard is dropped) and receive_messages returns it.
r_broadcast_failed(c) ==
    /\ lpc[Reader(c)] = "broadcast"
    /\ Release(Reader(c), "done")

\* receive_messages: a read fails or times out, or a frame does not decode;
\* remove_user reaches clients.lock().await.
r_error(c) ==
    /\ lpc[Reader(c)] = "loop"
    /\ Move(Reader(c), "wait_remove")

\* remove_user returns (the guard is dropped) and the task returns its
\* error.
r_removed(c) ==
    /\ lpc[Reader(c)] = "remove"
    /\ Release(Reader(c), "done")

\* send_messages: a write or the flush fails; remove_user reaches
\* clients.lock().await.
w_error(c) ==
    /\ lpc[Writer(c)] = "loop"
    /\ Move(Writer(c), "wait_remove")

\* remove_user returns (the guard is dropped) and the task returns its
\* error.
w_removed(c) ==
    /\ lpc[Writer(c)] = "remove"
    /\ Release(Writer(c), "done")

\* send_messages: rx.recv() gives None; Ok(()).
w_closed(c) ==
    /\ lpc[Writer(c)] = "loop"
    /\ Move(Writer(c), "done")

\* handle_client: remove_user returns (the guard is dropped) and the
\* handler returns the error.
h_removed(c) ==
    /\ lpc[Handler(c)] = "remove"
    /\ Release(Handler(c), "done")

\* run: the ctrl_c branch; shutdown reaches self.clients.lock().await.
l_ctrl_c ==
    /\ lpc[RunTask] = "select"
    /\ Move(RunTask, "wait_shutdown")

\* shutdown: the messages are sent; sleep(1 s) with the guard alive.
l_shutdown_sent ==
    /\ lpc[RunTask] = "shutdown"
    /\ Move(RunTask, "sleep")

\* shutdown: a send fails; `?` returns the error, which drops the guard,
\* and run returns it.
l_shutdown_failed ==
    /\ lpc[RunTask] = "shutdown"
    /\ Release(RunTask, "done")

\* shutdown that returns and leaves the lock taken.
l_shutdown_leak ==
    /\ lpc[RunTask] = "sleep"
    /\ Move(RunTask, "done")

\* shutdown: the sleep ends; clients.clear(), Ok(()), which drops the
\* guard, and run returns.
l_shutdown_return ==
    /\ lpc[RunTask] = "sleep"
    /\ Release(RunTask, "done")

\* The steps of task t while its guard is alive.
Holding(t) ==
    \/ \E c \in Contenders : t = Handler(c) /\ (h_taken(c) \/ h_inserted(c) \/ h_removed(c))
    \/ \E c \in Contenders : t = Reader(c) /\ (r_broadcast(c) \/ r_removed(c))
    \/ \E c \in Contenders : t = Writer(c) /\ w_removed(c)
    \/ t = RunTask /\ (l_shutdown_sent \/ l_shutdown_return)

LockNext ==
    \/ \E t \in Tasks : acquire(t)
    \/ \E c \in Contenders : h_spawn(c)
    \/ \E c \in Contenders : h_taken(c)
    \/ \E c \in Contenders : h_inserted(c)
    \/ \E c \in Contenders : h_join(c)
    \/ \E c \in Contenders : h_join_ok(c)
    \/ \E c \in Contenders : h_removed(c)
    \/ \E c \in Contenders : r_frame(c)
    \/ \E c \in Contenders : r_broadcast(c)
    \/ \E c \in Contenders : r_broadcast_failed(c)
    \/ \E c \in Contenders : r_error(c)
    \/ \E c \in Contenders : r_removed(c)
    \/ \E c \in Contenders : w_error(c)
    \/ \E c \in Contenders : w_removed(c)
    \/ \E c \in Contenders : w_closed(c)
    \/ l_ctrl_c
    \/ l_shutdown_sent
    \/ l_shutdown_failed
    \/ l_shutdown_return

\* A task that holds the guard runs on (its section has no await but the
\* sleep of shutdown, which ends), and tokio's Mutex hands the lock to the
\* tasks that wait in the order they came.
LockSpec ==
    /\ LockInit
    /\ [][LockNext]_vars
    /\ \A t \in Tasks : WF_vars(Holding(t))
    /\ \A t \in Tasks : SF_vars(acquire(t))

Next ==
    \/ \E c \in Conn : accept(c)
    \/ accept_error
    \/ \E c \in Conn, raw \in RawNames : read_username(c, raw)
    \/ \E c \in Conn : read_closed(c)
    \/ \E c \in Conn : read_failed(c)
    \/ \E c \in Conn : handle_client_lock(c)
    \/ \E c \in Conn : handle_client_spawn(c)
    \/ \E c \in Conn : handle_client_join(c)
    \/ \E c \in Conn, p \in Payloads : receive_frame(c, p)
    \/ \E c \in Conn : receive_failed(c)
    \/ \E c \in Conn : receive_timeout(c)
    \/ \E c \in Conn : receive_panic(c)
    \/ \E c \in Conn : send_written(c)
    \/ \E c \in Conn : send_failed(c)
    \/ \E c \in Conn : send_closed(c)
    \/ ctrl_c
    \/ shutdown_clear

Spec == Init /\ [][Next]_vars

-----------------------------------------------------------------------------
(* Vocabulary of the properties *)

\* The registry holds the entry that connection c inserted.
Registered(c) == Client(uname[c], c) \in clients

\* The connections that have an entry in the registry.
Participants == Senders(clients)

\* This step is receive_messages of connection c reading the frame p.
FrameStep(c, p) == nframes' = nframes + 1 /\ ev' = Event(c, p)

IsText(p) == p.kind = "msg" /\ p.msg.content.tag = "Text"

IsFile(p) == p.kind = "msg" /\ p.msg.content.tag = "File"

IsSignal(p) == p.kind = "msg" /\ p.msg.content.tag = "Signal"

StartsWithAt(body) == body # <<>> /\ Head(body) = "@"

SpacesOf(body) == {i \in 1..Len(body) : body[i] = " "}

FirstSpace(body) == CHOOSE i \in SpacesOf(body) : \A j \in SpacesOf(body) : i <= j

\* "@target rest"
WhisperTarget(body) == SubSeq(body, 2, FirstSpace(body) - 1)

WhisperRest(body) == SubSeq(body, FirstSpace(body) + 1, Len(body))

\* This step enqueues exactly m on the channel of d; it leaves it alone.
Delivered(d, m) == queue'[d] = Append(queue[d], m)

Untouched(d) == queue'[d] = queue[d]

Last(q) == q[Len(q)]

\* The rule of the handshake for usernames: 3 characters or more, all
\* alphanumeric.
ValidUsername(u) == Len(u) >= 3 /\ \A i \in 1..Len(u) : u[i] \in Alphanumeric

Returned == {"Ok", "Err", "TaskJoinFailed"}

-----------------------------------------------------------------------------
(* Properties *)

\* C1: in every reachable state the registry holds at most one entry per
\* username.
UniqueUsernames ==
    \A a, b \in clients : a.username = b.username => a = b

\* Two connections gave the same username (after trim); one is registered
\* and the other was refused.
UniqueUsernamesWitness ==
    \E c, d \in Conn :
        /\ c # d
        /\ uname[c] = uname[d]
        /\ Registered(c)
        /\ hstate[d] = "UsernameTaken"

WhisperReachesTargetOnly ==
    [][\A c \in Conn, p \in Payloads :
        (/\ FrameStep(c, p)
         /\ Registered(c)
         /\ IsText(p)
         /\ StartsWithAt(p.msg.content.text)
         /\ SpacesOf(p.msg.content.text) # {}
         /\ WhisperTarget(p.msg.content.text) # uname[c]
         /\ \E cl \in clients : cl.username = WhisperTarget(p.msg.content.text))
        => \A d \in Conn :
              IF \E cl \in clients :
                    cl.sender = d /\ cl.username = WhisperTarget(p.msg.content.text)
              THEN Delivered(d, MessageFrom(WhisperRest(p.msg.content.text), uname[c]))
              ELSE Untouched(d)]_vars

\* C5: when participant u sends a Text body that starts with '@' and whose
\* target is not registered, or that has no space, exactly one message
\* with sender "Server" and content Text("User not found") is enqueued for
\* u and nothing for anybody else.
WhisperMissAnswered ==
    [][\A c \in Conn, p \in Payloads :
        (/\ FrameStep(c, p)
         /\ Registered(c)
         /\ IsText(p)
         /\ StartsWithAt(p.msg.content.text)
         /\ \/ SpacesOf(p.msg.content.text) = {}
            \/ ~\E cl \in clients : cl.username = WhisperTarget(p.msg.content.text))
        => \A d \in Conn :
              IF d = c
              THEN Delivered(d, MessageFrom(UserNotFound, ServerName))
              ELSE Untouched(d)]_vars

SenderIsHandshakeName ==
    [][\A c \in Conn, p \in Payloads :
        (FrameStep(c, p) /\ p.kind = "msg")
        => \A d \in Conn :
              \/ Untouched(d)
              \/ /\ Len(queue'[d]) = Len(queue[d]) + 1
                 /\ SubSeq(queue'[d], 1, Len(queue[d])) = queue[d]
                 /\ Last(queue'[d]).sender = uname[c]]_vars

\* A frame whose sender field is not the sender's username has just been
\* routed, and the message enqueued carries the username.
SenderWitness ==
    \E c, d \in Conn :
        /\ c # d
        /\ ev.conn = c
        /\ ev.payload.kind = "msg"
        /\ ev.payload.msg.sender # uname[c]
        /\ queue[d] # <<>>
        /\ Last(queue[d]) = [sender |-> uname[c], content |-> ev.payload.msg.content]

\* C8: when a connection proposes a username that is in the registry, its
\* handler returns UsernameTaken, the registry is left exactly as it was
\* and no message is enqueued.
TakenChangesNothing ==
    [][\A c \in Conn :
        (/\ hstate[c] = "spawned"
         /\ hstate'[c] # "spawned"
         /\ \E cl \in clients : cl.username = uname[c])
        => /\ hstate'[c] = "UsernameTaken"
           /\ clients' = clients
           /\ queue' = queue]_vars

\* A handler has returned UsernameTaken while the first holder of the name
\* and a third participant are registered.
TakenWitness ==
    \E c, d, e \in Conn :
        /\ hstate[c] = "UsernameTaken"
        /\ d # c
        /\ Client(uname[c], d) \in clients
        /\ Registered(e)
        /\ uname[e] # uname[c]
        /\ queue[e] = <<>>

\* C9: a username that, trimmed, has fewer than 3 characters or a character
\* that is not alphanumeric never enters the registry.
RegistryNamesValid ==
    \A cl \in clients : ValidUsername(cl.username)

\* C10: once handle_client has returned after inserting its participant,
\* the entry it inserted is not in the registry.
ReturnedHandlerRemoved ==
    \A c \in Conn :
        hstate[c] \in Returned => ~\E cl \in clients : cl.sender = c

\* A handler has returned with a task's error and another with the join
\* error, while somebody else is still registered.
ReturnedHandlerWitness ==
    \E c, d \in Conn :
        /\ c # d
        /\ hstate[c] \in {"Err", "TaskJoinFailed"}
        /\ Registered(d)

\* The usernames a handshake can give.
Usernames == {Trim(raw) : raw \in RawNames}

\* This step enqueues "u has left the chat." from "Server" on the channel of d.
LeaveDelivered(d, u) == Delivered(d, DisconnectMessage(u))

\* C11: from the spawn of its two tasks on, a connection's receive_messages
\* runs only while the registry holds the entry the connection inserted,
\* and the entry is there only while the reader runs or the handler is
\* still about to take it out.  (When run has returned the process is
\* over and no task runs.)
ReaderIffRegistered ==
    \A c \in Conn :
        (Running /\ hstate[c] \in {"select"} \cup Returned)
        => /\ rtask[c] = "run" => Registered(c)
           /\ Registered(c) => (rtask[c] = "run" \/ hstate[c] = "select")

\* C12: a "u has left the chat." message is enqueued only by a step that
\* takes u out of the registry (so once per disconnect), and a step that
\* takes u out, other than the clear of shutdown, enqueues exactly that
\* message for every participant still registered and none for the others.
LeaveOncePerDisconnect ==
    [][\A u \in Usernames :
        /\ (\E d \in Conn : LeaveDelivered(d, u))
           => /\ \E cl \in clients : cl.username = u
              /\ ~\E cl \in clients' : cl.username = u
        /\ (/\ \E cl \in clients : cl.username = u
            /\ ~\E cl \in clients' : cl.username = u
            /\ srv' # "Ok")
           => \A d \in Conn :
                 IF \E cl \in clients' : cl.sender = d
                 THEN LeaveDelivered(d, u)
                 ELSE ~LeaveDelivered(d, u)]_vars

\* C13: once handle_client has returned because one of its two tasks ended
\* with an error, the other task of the connection is not running: a failed
\* writer leaves no reader, a failed reader leaves no writer.
OtherActivityCancelled ==
    \A c \in Conn :
        hstate[c] \in Returned
        => /\ stask[c] = "Err" => rtask[c] # "run"
           /\ rtask[c] \in {"Err", "Panic"} => stask[c] # "run"

\* No byte has arrived for more than the heartbeat timeout.
Silent == now - lastbyte > HEARTBEAT_TIMEOUT

\* receive_messages waits under timeout(..): only the read of the length
\* prefix is wrapped in it.
TimerArmed == rpc = "prefix"

\* C14: when no byte has arrived on an open connection for more than
\* HEARTBEAT_TIMEOUT, wherever in the read cycle the silence began, the
\* reader has ended, or it can take a step, or it waits with a timer that
\* will end its wait: it is never left waiting for bytes for ever.
SilenceEndsReader ==
    (Silent /\ ~closed /\ rtask[RC] = "run")
    => (TimerArmed \/ ENABLED <<ReaderStep>>_vars)

\* C15: a participant whose every whole frame has arrived less than
\* HEARTBEAT_TIMEOUT after the one before (the first one after the start of
\* the reader) is not disconnected with HeartBeatTimeOut.
RegularNeverTimedOut ==
    regular => rerr # "HeartBeatTimeOut"

\* Two timeouts' worth of time has passed, the heartbeats have come every
\* Tick seconds, and the reader still runs with its entry in the registry.
RegularWitness ==
    /\ regular
    /\ now >= 2 * HEARTBEAT_TIMEOUT
    /\ Len(log) >= 2
    /\ rtask[RC] = "run"
    /\ Registered(RC)

\* C16: when the client has closed the stream, the reader has returned or
\* can take a step that changes something: it reads what is left, decodes
\* it, or returns the transport error.
EofEndsReader ==
    (closed /\ rtask[RC] = "run") => ENABLED <<ReaderStep>>_vars

\* This step is receive_messages of RC handing a whole payload to
\* Message::from_bytes.
DecodeStep == nframes' = nframes + 1

\* The payload the client wrote in the frame the reader is at.
Current == frames[Len(log) + 1]

IsPrefix(s, w) == Len(s) <= Len(w) /\ SubSeq(w, 1, Len(s)) = s

IsSuffix(s, w) == Len(s) <= Len(w) /\ SubSeq(w, Len(w) - Len(s) + 1, Len(w)) = s

\* C17: the step that handles a frame whose length prefix is 0 routes
\* nothing and tears the connection down: the reader returns an error, the
\* entry is removed and only the leave message is enqueued.
ZeroLengthRejected ==
    [][(rpc = "decode" /\ message_length = 0 /\ DecodeStep)
        => /\ rtask'[RC] = "Err"
           /\ ~\E cl \in clients' : cl.sender = RC
           /\ \A d \in Conn : Untouched(d) \/ LeaveDelivered(d, uname[RC])]_vars

\* C18: however the bytes of the stream are cut into chunks, the reader
\* hands on the payloads the client wrote, in order; what it holds of the
\* payload it is reading is a part of that payload, whole when it is
\* decoded; and it has read no byte beyond the part of the stream it has
\* put in its buffers.
ChunkingKeepsFrames ==
    /\ IsPrefix(log, frames)
    /\ rpc \in {"payload", "decode"}
       => /\ Len(log) < Len(frames)
          /\ IsPrefix(message_buffer, Current)
          /\ (rpc = "decode") = (message_buffer = Current)
    /\ consumed = Len(Stream(log)) + Len(length_buffer) + Len(message_buffer)

\* The first frame has been handed on whole and a chunk has ended inside
\* the payload of the second, another inside the bytes that follow.
ChunkingWitness ==
    /\ Len(log) = 1
    /\ rpc = "payload"
    /\ message_buffer # <<>>
    /\ Len(message_buffer) < message_length
    /\ Ready = 1

\* C19: when the reader hands a payload to the decoder, it is the payload
\* the writer was given for that frame, its length is the length the prefix
\* gave, and the reader has read exactly the bytes written so far.
WriteReadRoundTrip ==
    [][DecodeStep
        => /\ Len(log) < Len(frames)
           /\ message_buffer = Current
           /\ message_length = Len(Current)
           /\ consumed = Len(Stream(SubSeq(frames, 1, Len(log) + 1)))]_vars

\* Read back: a payload of no byte and one longer than the buffer, or one
\* as long as the buffer and one of two buffers.
RoundTripWitness ==
    /\ Len(log) = 2
    /\ \/ log[1] = <<>> /\ Len(log[2]) > BUFFER_SIZE
       \/ Len(log[1]) = BUFFER_SIZE /\ Len(log[2]) = 2 * BUFFER_SIZE

\* The messages of q that carry the username of RC as sender.
FromOriginator(q) == SelectSeq(q, LAMBDA m : m.sender = uname[RC])

\* The messages the routing of the payloads l makes, in order.
RECURSIVE RoutedOf(_)
RoutedOf(l) ==
    IF l = <<>> THEN <<>>
    ELSE (IF /\ FromBytes(FromWire(Head(l))).ok
             /\ RouteKind(FromBytes(FromWire(Head(l))).msg.content) # "none"
          THEN <<Routed(uname[RC], FromBytes(FromWire(Head(l))).msg)>>
          ELSE <<>>)
         \o RoutedOf(Tail(l))

\* C20: the messages of originator RC in the channel of the recipient are,
\* in order, the last ones made from RC's frames in the order these were
\* decoded; and the writer of the recipient takes the channel's first
\* message, so they are written in that order.
OriginatorOrderKept ==
    /\ [](IsSuffix(FromOriginator(queue[Observer]), RoutedOf(log)))
    /\ [][(queue'[Observer] # queue[Observer]
           /\ Len(queue'[Observer]) <= Len(queue[Observer]))
          => queue'[Observer] = Tail(queue[Observer])]_vars

\* Two different messages of RC wait in the recipient's channel.
OrderWitness ==
    /\ Len(FromOriginator(queue[Observer])) = 2
    /\ FromOriginator(queue[Observer])[1] # FromOriginator(queue[Observer])[2]
    /\ stask[Observer] = "run"

\* This step is Server::run taking the ctrl_c branch: shutdown sends.
ShutdownStep == srv \in {"select", "ctrl_c_only"} /\ srv' \in {"sleep", "Err"}

\* C21: during a broadcast (text or file) and during shutdown, an enqueue
\* that fails on one recipient's channel does not abort the operation: every
\* other recipient still gets the message, and the connection of the
\* originator is not ended by it.
EnqueueFailureSwallowed ==
    [][/\ \A c \in Conn, p \in Payloads :
            (/\ FrameStep(c, p)
             /\ Registered(c)
             /\ FromBytes(p).ok
             /\ RouteKind(FromBytes(p).msg.content) # "none")
            => /\ \A d \in Participants \ {c} :
                     RxAlive(d) => Delivered(d, Routed(uname[c], FromBytes(p).msg))
               /\ rtask'[c] = "run"
       /\ ShutdownStep
            => \A d \in Participants : RxAlive(d) => Delivered(d, ShutdownMessage)]_vars

\* This step is an error on connection c or its handling: the handshake read
\* fails, a frame read fails or times out, a frame does not decode, a write
\* fails, or handle_client is given the task's error.
ConnectionErrorStep(c) ==
    \/ read_failed(c)
    \/ receive_failed(c)
    \/ receive_timeout(c)
    \/ send_failed(c)
    \/ \E p \in Payloads : FrameStep(c, p) /\ ~FromBytes(p).ok
    \/ handle_client_join(c) /\ hstate'[c] # "Ok"

\* C22: no error on a single connection makes Server::run return or stop
\* serving, and it neither removes the registry entry of another participant
\* nor ends another participant's handler or tasks.
ConnectionErrorContained ==
    [][\A c \in Conn :
        ConnectionErrorStep(c)
        => /\ srv' \in {srv, "select"}
           /\ \A d \in Conn \ {c} :
                 /\ Registered(d) => Registered(d)'
                 /\ hstate'[d] = hstate[d]
                 /\ rtask'[d] = rtask[d]
                 /\ stask'[d] = stask[d]]_vars

\* Server::run is in its loop: not inside handle_new_connection, not inside
\* shutdown, not returned.
InAcceptLoop == Running /\ srv \notin {"reading", "sleep"}

\* C23: after listener.accept() has returned an error, Server::run has not
\* terminated and accepts the connections that arrive afterwards: whenever
\* run is in its loop, the next connection can be accepted.
AcceptErrorSurvived ==
    (InAcceptLoop /\ \E c \in Conn : NextConn(c))
    => ENABLED <<\E c \in Conn : accept(c)>>_vars

\* C24: whenever an interrupt is delivered to a running broker, Server::run
\* enters shutdown whatever the connections do: in every state in which run
\* has not entered shutdown yet, the ctrl_c branch can be taken without
\* waiting for a byte of any client.
InterruptEntersShutdown ==
    (Running /\ srv # "sleep") => ENABLED <<ctrl_c>>_vars

\* This step puts m at the end of the channel of d.
Enqueues(d, m) == Len(queue'[d]) > Len(queue[d]) /\ Last(queue'[d]) = m

Sleeping == srv = "sleep"

\* C26: no task holds the registry lock while it is suspended on a timer or
\* on I/O.  (The other tasks take and release the lock within one step; they
\* wait for reads, writes and channels between steps, with the lock free.)
LockNotHeldSuspended ==
    Sleeping => LockFree

\* The send_messages tasks that run and hold the receiver of channel s.
WritersOf(s) == {d \in Conn : d = s /\ stask[d] = "run"}

\* C27: in every reachable state each entry of the registry has exactly one
\* running send_messages task that drains its channel.
OneWriterPerEntry ==
    \A cl \in clients : Cardinality(WritersOf(cl.sender)) = 1

\* from_bytes has been given the whole output of as_bytes.
RoundTripDone == cstep = "decoded" /\ origin = "encoded"

\* C28: for every Message m with supported content and a valid sender,
\* from_bytes(as_bytes(m)) succeeds and gives a message equal to m in sender,
\* content and timestamp.
DecodeEncodeIdentity ==
    RoundTripDone
    => /\ decoded.ok
       /\ decoded.msg.sender = original.sender
       /\ decoded.msg.content = original.content
       /\ decoded.msg.timestamp = original.timestamp

\* C29: from_bytes returns an error, and never a Message, for an input in
\* which a field is missing, a tag is unknown or the bytes are truncated.
DecodeRejectsDamaged ==
    (cstep = "decoded" /\ origin \in {"truncated", "forged"}) => ~decoded.ok

\* Seconds since the epoch in the unsigned 32-bit range.
InU32(dt) == dt.hi \in 0..(Half - 1) /\ dt.lo \in 0..(Half - 1)

\* C30: the timestamp of a message survives encode then decode unchanged
\* for every value of seconds since the epoch in 0 .. 2^32 - 1.
TimestampSurvives ==
    (RoundTripDone /\ InU32(original.timestamp))
    => /\ decoded.ok
       /\ decoded.msg.timestamp.hi = original.timestamp.hi
       /\ decoded.msg.timestamp.lo = original.timestamp.lo

\* This step is a step of connection d: its handler or one of its tasks
\* moves.
StepOf(d) ==
    \/ hstate'[d] # hstate[d]
    \/ rtask'[d] # rtask[d]
    \/ stask'[d] # stask[d]

\* C32: the registry entry of a connection is removed only by the end of
\* that connection or by shutdown: a remove_user(u) of an older connection
\* never removes the entry a later connection inserted for the same u.
EntryRemovedByOwner ==
    [][\A d \in Conn :
        (Registered(d) /\ ~Registered(d)')
        => (StepOf(d) \/ srv' = "Ok")]_vars

\* Connection d has been accepted and its username has not been read yet.
AwaitingUsername(d) == hstate[d] = "reading"

\* C34: a connection that has been accepted but has not sent its username
\* does not stop Server::run from accepting the connections that arrive
\* meanwhile: while some connection awaits its username, the next one can
\* be accepted.
PendingHandshakeAllowsAccept ==
    ((\E d \in Conn : AwaitingUsername(d)) /\ (\E c \in Conn : NextConn(c)))
    => ENABLED <<\E c \in Conn : accept(c)>>_vars

\* The channels at whose end this step puts a message.
Grown == {d \in Conn : Len(queue'[d]) > Len(queue[d])}

\* The channels the broadcast of a message of `username` reaches, given
\* the registry at one instant.
Audience(client_list, username) ==
    Senders({cl \in client_list : cl.username # username})

Failures(n) == {i \in 1..n : i <= Len(tried) /\ tried[i] = "Err"}

\* connect_with_retry has returned.
RetryReturned == cpc = "return"

\* C37: connect_with_retry makes at most `retries` attempts; it returns the
\* stream of the first attempt that succeeds and attempts nothing after it;
\* it has slept `delay` seconds after each failed attempt but the last of
\* the `retries`; and it returns ConnectionFailed(retries) exactly when all
\* `retries` attempts failed (at once and without an attempt when retries
\* is 0).
RetryContract ==
    /\ [](Len(tried) <= retries)
    /\ [](\A i \in 1..Len(tried) : tried[i] = "Ok" => i = Len(tried) /\ result = Connected)
    /\ [](RetryReturned
          => /\ result \in {Connected, ConnectionFailed(retries)}
             /\ result = Connected <=> (tried # <<>> /\ Last(tried) = "Ok")
             /\ result = ConnectionFailed(retries)
                <=> (Len(tried) = retries /\ Failures(retries) = 1..retries)
             /\ waited = delay * Cardinality(Failures(retries - 1)))
    /\ [](cpc = "sleep" => Last(tried) = "Err" /\ Len(tried) < retries)
    /\ [][RetryReturned => UNCHANGED <<tried, waited, result>>]_vars

\* All the attempts of a call with two retries or more have failed.
RetryExhausted ==
    /\ RetryReturned
    /\ retries >= 2
    /\ delay > 0
    /\ result = ConnectionFailed(retries)
    /\ waited > 0

\* A call succeeded after a failed attempt.
RetrySucceededLate ==
    /\ RetryReturned
    /\ result = Connected
    /\ Len(tried) >= 2
    /\ delay > 0

\* A call with retries = 0 has returned.
RetryNone == RetryReturned /\ retries = 0

\* The frames a client writes.
ClientFrames == {WriteFrame(payload) : payload \in TypedPayloads \cup {HeartbeatBytes}}

\* b is a concatenation of whole frames of the client.
RECURSIVE WholeFrames(_)
WholeFrames(b) ==
    \/ b = <<>>
    \/ \E f \in ClientFrames : IsPrefix(f, b) /\ WholeFrames(Drop(b, Len(f)))

\* b is a concatenation of whole frames of the client and the first bytes
\* of one more.
RECURSIVE FramesSoFar(_)
FramesSoFar(b) ==
    \E f \in ClientFrames :
        \/ IsPrefix(b, f)
        \/ IsPrefix(f, b) /\ FramesSoFar(Drop(b, Len(f)))

\* C36: the bytes of a frame of send_messages and those of a frame of
\* send_heartbeat are never interleaved on the write half: at every moment
\* the stream is whole frames followed by the first bytes of one frame,
\* and whole frames only whenever no task holds the guard.
FramesNotInterleaved ==
    /\ FramesSoFar(upstream)
    /\ wguard = "free" => WholeFrames(upstream)

\* send_heartbeat waits for the guard while send_messages is between the
\* chunks of a frame, after a heartbeat has been written.
HeartbeatWaitsMidFrame ==
    /\ bpc = "lock"
    /\ mpc = "chunks"
    /\ Len(pending) = 1
    /\ Len(message_bytes) > BUFFER_SIZE
    /\ IsPrefix(WriteFrame(HeartbeatBytes), upstream)

\* C38: when the broker has closed the connection, the client's
\* receive_messages has returned or can take a step that changes something
\* (it reads what is left, decodes it, or returns Disconnected), wherever
\* in a frame the stream ended; and when it has returned, run_client
\* returns.
ServerCloseEndsClient ==
    /\ (closed /\ ctask = "run") => ENABLED <<ClientReaderStep>>_vars
    /\ (ctask = "Err" /\ crun = "select") => ENABLED <<run_client_join>>_vars

\* handle_client of RC has been spawned with a username.
Named(c) == hstate[c] \notin {"idle", "reading", "closed"}

\* C31: the username the broker registers for a connection is the bytes
\* its client wrote before the first frame, trimmed, however the stream is
\* cut into reads; and the payloads the reader then hands to from_bytes
\* are those of the frames written after it, in order.
UsernameIsFirstBytes ==
    /\ Named(RC) => uname[RC] = Trim(FromUtf8(hello))
    /\ \A i \in 1..Len(log) : i <= Len(frames) /\ log[i] = frames[i]

\* C35: the broker never deadlocks on the registry lock.  No task is at a
\* lock().await while its own guard is alive, and the guard is alive only
\* in the sections that start with a lock().await; every task that has
\* the guard drops it; and every task that waits for the lock gets it,
\* unless run returns first and the process ends.
LockNeverDeadlocks ==
    /\ [](\A t \in Tasks : lpc[t] \in Waiting => holder # t)
    /\ [](holder # NoTask
          => lpc[holder] \in {"handshake", "broadcast", "remove", "shutdown", "sleep"})
    /\ \A t \in Tasks : (holder = t) ~> (holder # t)
    /\ \A t \in Tasks : (lpc[t] \in Waiting) ~> (holder = t \/ Exited)

\* A task waits for the lock while shutdown sleeps with the guard alive and
\* another task waits too.
LockContended ==
    /\ holder = RunTask
    /\ lpc[RunTask] = "sleep"
    /\ \E c, d \in Contenders :
        /\ c # d
        /\ lpc[Reader(c)] = "wait_broadcast"
        /\ lpc[Handler(d)] = "wait_handshake"

====
